---- MODULE Spec2Model ----
(***************************************************************************)
(* Dungeon floor layout: the room template registry, the incremental       *)
(* LiveDungeonManager and the eager DungeonGenerator.                      *)
(*                                                                         *)
(* Optional values (TypeScript `T | undefined`, `T | null`) are sets of at *)
(* most one element: {} is undefined/null, {v} is the value v.  The value  *)
(* of one SeededRandom.next() call is a rational u.num / u.den in [0, 1);  *)
(* it is an input of the step that makes the call (the stream is fixed by  *)
(* the seed, which is an input of the constructor).                        *)
(***************************************************************************)
EXTENDS Integers, Sequences, FiniteSets, TLC

VARIABLES
    components,        \* RoomComponentRegistry.components (insertion order)
    byType,            \* RoomComponentRegistry.byType
    byDoor,            \* RoomComponentRegistry.byDoor
    rooms,             \* LiveDungeonManager.rooms : id -> Room
    grid,              \* LiveDungeonManager.grid : cell -> room id
    pendingDoors,      \* LiveDungeonManager.pendingDoors
    usedComponentIds,  \* LiveDungeonManager.usedComponentIds
    floorNumber,       \* LiveDungeonManager.floorNumber
    maxRooms,          \* LiveDungeonManager.maxRooms
    startRoom,         \* LiveDungeonManager.startRoom
    currentRoom,       \* LiveDungeonManager.currentRoom
    roomCount,         \* LiveDungeonManager.roomCount
    bossPlaced,        \* LiveDungeonManager.bossPlaced
    call,              \* the last public call: operation, arguments, result,
                       \* number of rng.next() calls it made
    emitted,           \* notifications dispatched by the last public call
    gen,               \* DungeonGenerator: state of one generate() call
    gen2,              \* a second DungeonGenerator, constructed for each call
    query,             \* the last call made on the registry, with its result
    rng                \* two SeededRandom instances and their last call

liveVars == <<rooms, grid, pendingDoors, usedComponentIds, floorNumber,
              maxRooms, startRoom, currentRoom, roomCount, bossPlaced,
              call, emitted>>
regVars == <<components, byType, byDoor>>
genVars == <<gen, gen2>>
vars == <<components, byType, byDoor, rooms, grid, pendingDoors,
          usedComponentIds, floorNumber, maxRooms, startRoom, currentRoom,
          roomCount, bossPlaced, call, emitted, gen, gen2, query, rng>>

-----------------------------------------------------------------------------
(* Bounds of the model. *)

\* resolution of the draws of the live manager and of a shuffle: next()
\* returns k / RngRes for some k in 0 .. RngRes-1
RngRes == 4
\* resolution of the draws of the generator's frontier walk
WalkRes == 4
\* largest maxRooms the generator is called with
MaxTarget == 5
\* rooms the live manager may create on one floor before the model stops
MaxGenerated == 12
MaxCleared == 5

\* setTile is explored while fewer than MaxWritten template cells are written
MaxWritten == 1

\* templates register() may add to the indexes before the model stops
MaxRegistered == 3

\* calls made on one SeededRandom instance before the model stops
MaxCalls == 2

DrawsAt(res) == {[num |-> k, den |-> res] : k \in 0 .. (res - 1)}
Draws == DrawsAt(RngRes)
ZeroDraw == [num |-> 0, den |-> 1]

-----------------------------------------------------------------------------
(* Optional values. *)

None == {}
Some(v) == {v}
Has(o) == o # {}
Val(o) == CHOOSE v \in o : TRUE

-----------------------------------------------------------------------------
(* Room.ts: enums. *)

NORTH == "north"
SOUTH == "south"
EAST == "east"
WEST == "west"
DoorDirection == {NORTH, SOUTH, EAST, WEST}

START == "start"
NORMAL == "normal"
TREASURE == "treasure"
SHOP == "shop"
BOSS == "boss"
RoomType == {START, NORMAL, TREASURE, SHOP, BOSS, "secret", "challenge", "hub"}

\* the id of no room (null)
NullId == <<-1, "">>

\* the value of `query` before any call on the registry
NoQuery == [op |-> "none"]

\* the value of `rng` before any SeededRandom is constructed
NoRng == [op |-> "none"]

\* the value of `call` before any public call
NoCall == [op |-> "none", fromRoom |-> NullId, direction |-> "", ret |-> NullId,
           threw |-> FALSE, used |-> 0]

-----------------------------------------------------------------------------
(* RoomComponent.ts *)

\* mutation: EAST is its own opposite
getOppositeDirectionEastFixed(dir) ==
    CASE dir = NORTH -> SOUTH
      [] dir = SOUTH -> NORTH
      [] dir = EAST -> EAST
      [] dir = WEST -> EAST

getOppositeDirection(dir) ==
    CASE dir = NORTH -> SOUTH
      [] dir = SOUTH -> NORTH
      [] dir = EAST -> WEST
      [] dir = WEST -> EAST

\* the directions of a component's door slots, in slot order
SlotDirections(component) ==
    LET slots == Val(component.doorSlots)
    IN  [i \in 1 .. Len(slots) |-> slots[i].direction]

InSeq(x, s) == \E i \in 1 .. Len(s) : s[i] = x

\* a query with only the required door set
Constraints(requiredDoor) ==
    [requiredDoor |-> requiredDoor, allowedSizes |-> None,
     requiredType |-> None, maxDifficulty |-> None, minDifficulty |-> None,
     floorNumber |-> None, requiredTags |-> None, excludedTags |-> None,
     usedRoomIds |-> None]

\* mutation: the floor is checked only when the room has both bounds
roomMatchesConstraintsBothBounds(room, constraints) ==
    /\ InSeq(constraints.requiredDoor, SlotDirections(room))
    /\ ~ (Has(constraints.allowedSizes)
          /\ room.sizeCategory \notin Val(constraints.allowedSizes))
    /\ ~ (Has(constraints.requiredType)
          /\ room.type # Val(constraints.requiredType))
    /\ ~ (Has(constraints.maxDifficulty)
          /\ room.difficulty > Val(constraints.maxDifficulty))
    /\ ~ (Has(constraints.minDifficulty)
          /\ room.difficulty < Val(constraints.minDifficulty))
    /\ ((Has(constraints.floorNumber) /\ Has(room.minFloor) /\ Has(room.maxFloor)) =>
          /\ Val(constraints.floorNumber) >= Val(room.minFloor)
          /\ Val(constraints.floorNumber) <= Val(room.maxFloor))
    /\ (Has(constraints.requiredTags) =>
          \A tag \in Val(constraints.requiredTags) :
              Has(room.tags) /\ tag \in Val(room.tags))
    /\ ((Has(constraints.excludedTags) /\ Has(room.tags)) =>
          \A tag \in Val(constraints.excludedTags) : tag \notin Val(room.tags))
    /\ ~ (Has(constraints.usedRoomIds)
          /\ room.id \in Val(constraints.usedRoomIds))

roomMatchesConstraints(room, constraints) ==
    /\ InSeq(constraints.requiredDoor, SlotDirections(room))
    /\ ~ (Has(constraints.allowedSizes)
          /\ room.sizeCategory \notin Val(constraints.allowedSizes))
    /\ ~ (Has(constraints.requiredType)
          /\ room.type # Val(constraints.requiredType))
    /\ ~ (Has(constraints.maxDifficulty)
          /\ room.difficulty > Val(constraints.maxDifficulty))
    /\ ~ (Has(constraints.minDifficulty)
          /\ room.difficulty < Val(constraints.minDifficulty))
    /\ (Has(constraints.floorNumber) =>
          /\ ~ (Has(room.minFloor)
                /\ Val(constraints.floorNumber) < Val(room.minFloor))
          /\ ~ (Has(room.maxFloor)
                /\ Val(constraints.floorNumber) > Val(room.maxFloor)))
    /\ (Has(constraints.requiredTags) =>
          \A tag \in Val(constraints.requiredTags) :
              Has(room.tags) /\ tag \in Val(room.tags))
    /\ ((Has(constraints.excludedTags) /\ Has(room.tags)) =>
          \A tag \in Val(constraints.excludedTags) : tag \notin Val(room.tags))
    /\ ~ (Has(constraints.usedRoomIds)
          /\ room.id \in Val(constraints.usedRoomIds))

-----------------------------------------------------------------------------
(* Random.ts: the derived operations, on the value u of next(). *)

\* Math.floor(next() * (max - min + 1)) + min
intBetween(u, min, max) == ((u.num * (max - min + 1)) \div u.den) + min

\* next() < probability, probability given in percent
chance(u, percent) == u.num * 100 < percent * u.den

\* array[intBetween(0, array.length - 1)]
pick(u, array) == array[intBetween(u, 0, Len(array) - 1) + 1]

RECURSIVE SumSeq(_)
SumSeq(s) == IF Len(s) = 0 THEN 0 ELSE Head(s) + SumSeq(Tail(s))

\* the cumulative-weight scan; random is scaled by den
RECURSIVE WeightedScan(_, _, _, _, _)
WeightedScan(items, weights, random, den, i) ==
    IF i > Len(items) THEN items[Len(items)]
    ELSE LET r == random - weights[i] * den
         IN  IF r <= 0 THEN items[i]
             ELSE WeightedScan(items, weights, r, den, i + 1)

weightedPick(u, items, weights) ==
    WeightedScan(items, weights, u.num * SumSeq(weights), u.den, 1)

\* array[i] and array[j] exchanged (0-based indexes)
Swap(array, i, j) ==
    [array EXCEPT ![i + 1] = array[j + 1], ![j + 1] = array[i + 1]]

\* Fisher-Yates: for i from length-1 down to 1, j = intBetween(0, i);
\* stream[k] is the value of the k-th next() call
RECURSIVE ShuffleFrom(_, _, _)
ShuffleFrom(array, stream, i) ==
    IF i <= 0 THEN array
    ELSE ShuffleFrom(Swap(array, i, intBetween(stream[Len(array) - i], 0, i)),
                     stream, i - 1)

shuffle(array, stream) == ShuffleFrom(array, stream, Len(array) - 1)

-----------------------------------------------------------------------------
(* RoomComponentRegistry.ts.  A registry is [components, byType, byDoor]. *)

EmptyRegistry ==
    [components |-> <<>>,
     byType |-> [t \in RoomType |-> <<>>],
     byDoor |-> [d \in DoorDirection |-> <<>>]]

\* Map.set: replace the value of an existing key in place, else append
MapSet(entries, component) ==
    IF \E i \in 1 .. Len(entries) : entries[i].id = component.id
    THEN [i \in 1 .. Len(entries) |->
            IF entries[i].id = component.id THEN component ELSE entries[i]]
    ELSE Append(entries, component)

\* the byDoor index after pushing component once per slot direction
RECURSIVE IndexDoors(_, _, _)
IndexDoors(index, component, dirs) ==
    IF Len(dirs) = 0 THEN index
    ELSE LET d == Head(dirs)
             next == IF InSeq(component, index[d]) THEN index
                     ELSE [index EXCEPT ![d] = Append(@, component)]
         IN  IndexDoors(next, component, Tail(dirs))

\* mutation: tiles are not validated
RegisterNoTilesCheck(reg, component) ==
    IF component.id = "" \/ ~ Has(component.doorSlots)
    THEN reg
    ELSE [components |-> MapSet(reg.components, component),
          byType |-> [reg.byType EXCEPT ![component.type] = Append(@, component)],
          byDoor |-> IndexDoors(reg.byDoor, component, SlotDirections(component))]

Register(reg, component) ==
    IF component.id = "" \/ ~ Has(component.tiles) \/ ~ Has(component.doorSlots)
    THEN reg
    ELSE [components |-> MapSet(reg.components, component),
          byType |-> [reg.byType EXCEPT ![component.type] = Append(@, component)],
          byDoor |-> IndexDoors(reg.byDoor, component, SlotDirections(component))]

RECURSIVE RegisterAll(_, _)
RegisterAll(reg, data) ==
    IF Len(data) = 0 THEN reg
    ELSE RegisterAll(Register(reg, Head(data)), Tail(data))

LoadFromJSON(data) == RegisterAll(EmptyRegistry, data)

\* mutation: the candidates are not filtered
FindAllMatchingUnfiltered(constraints) ==
    byDoor[constraints.requiredDoor]

FindAllMatching(constraints) ==
    SelectSeq(byDoor[constraints.requiredDoor],
              LAMBDA room : roomMatchesConstraints(room, constraints))

ComponentWeight(r) == IF Has(r.weight) THEN Val(r.weight) ELSE 1

\* findMatching: None when nothing matches, else the weighted pick for draw u
FindMatching(constraints, u) ==
    LET matching == FindAllMatching(constraints)
    IN  IF Len(matching) = 0 THEN None
        ELSE Some(weightedPick(u, matching,
                 [i \in 1 .. Len(matching) |-> ComponentWeight(matching[i])]))

\* whether findMatching consumes a draw (weightedPick is reached)
FindMatchingDraws(constraints) ==
    IF Len(FindAllMatching(constraints)) = 0 THEN 0 ELSE 1

\* mutation: the requiredDoor of the passed constraints wins when present
FindForDoorKeepGiven(fromDirection, constraints, u) ==
    FindMatching([constraints EXCEPT
                     !.requiredDoor =
                         IF Has(constraints.requiredDoor)
                         THEN Val(constraints.requiredDoor)
                         ELSE getOppositeDirection(fromDirection)], u)

\* findForDoor; constraints is a Partial<RoomConstraints>, whose requiredDoor
\* is optional: { ...constraints, requiredDoor } replaces it
FindForDoor(fromDirection, constraints, u) ==
    LET requiredDoor == getOppositeDirection(fromDirection)
        fullConstraints == [constraints EXCEPT !.requiredDoor = requiredDoor]
    IN  FindMatching(fullConstraints, u)

getAll == components
getByDoor(direction) == byDoor[direction]
getByType(type) == byType[type]

-----------------------------------------------------------------------------
(* Room.ts.  A Room is a record; its doors map is the function `doors`     *)
(* (direction -> Door) with the directions' insertion order in doorOrder.  *)

NewRoom(id, type, templateId) ==
    [id |-> id, type |-> type, templateId |-> templateId,
     gridX |-> 0, gridY |-> 0,
     doors |-> [d \in {} |-> 0], doorOrder |-> <<>>,
     visited |-> FALSE, cleared |-> FALSE]

setGridPosition(room, x, y) == [room EXCEPT !.gridX = x, !.gridY = y]

NewDoor(direction, targetRoomId) ==
    [direction |-> direction, targetRoomId |-> targetRoomId,
     isLocked |-> FALSE, isOpen |-> TRUE]

addDoor(room, direction, targetRoomId) ==
    [room EXCEPT
        !.doorOrder = IF direction \in DOMAIN room.doors THEN @
                      ELSE Append(@, direction),
        !.doors = (direction :> NewDoor(direction, targetRoomId)) @@ @]

hasDoor(room, direction) == direction \in DOMAIN room.doors

\* config.width and config.height, kept by the constructor
RoomOfSize(room, width, height) == [width |-> width, height |-> height] @@ room

\* setTiles(tiles): `this.tiles = tiles` keeps the array it is given, it does
\* not copy it.  The field holds the identity of that array.
setTiles(room, tiles) == [tiles |-> tiles] @@ room

\* a matrix of height rows and width columns filled with one value
TileMatrix(width, height, value) ==
    [y \in 1 .. height |-> [x \in 1 .. width |-> value]]

\* this.tiles[y][x] = value on an array; x and y count from 0
WriteTile(matrix, x, y, value) == [matrix EXCEPT ![y + 1][x + 1] = value]

\* the guard of getTile and setTile
InRange(room, x, y) == x >= 0 /\ x < room.width /\ y >= 0 /\ y < room.height

\* mutation: the doors are locked and left open
lockDoorsKeepOpen(room) ==
    [room EXCEPT !.doors = [d \in DOMAIN @ |-> [@[d] EXCEPT !.isLocked = TRUE]]]

lockDoors(room) ==
    [room EXCEPT !.doors =
        [d \in DOMAIN @ |-> [@[d] EXCEPT !.isLocked = TRUE, !.isOpen = FALSE]]]

unlockDoors(room) ==
    [room EXCEPT !.doors =
        [d \in DOMAIN @ |-> [@[d] EXCEPT !.isLocked = FALSE, !.isOpen = TRUE]]]

visit(room) == [room EXCEPT !.visited = TRUE]

\* mutation: the flag is set and the doors are left as they are
clearKeepDoors(room) == [room EXCEPT !.cleared = TRUE]

clear(room) == unlockDoors([room EXCEPT !.cleared = TRUE])

-----------------------------------------------------------------------------
(* LiveDungeonManager.ts.  The private methods are operators on the record *)
(* m of the manager's mutable fields; the public methods are the actions.  *)

Manager ==
    [rooms |-> rooms, grid |-> grid, pendingDoors |-> pendingDoors,
     usedComponentIds |-> usedComponentIds, startRoom |-> startRoom,
     currentRoom |-> currentRoom, roomCount |-> roomCount,
     bossPlaced |-> bossPlaced]

gridKey(x, y) == <<x, y>>

getAdjacentPosition(x, y, direction) ==
    CASE direction = NORTH -> [x |-> x, y |-> y - 1]
      [] direction = SOUTH -> [x |-> x, y |-> y + 1]
      [] direction = EAST -> [x |-> x + 1, y |-> y]
      [] direction = WEST -> [x |-> x - 1, y |-> y]

\* the key of the cell next to a room in a direction
AdjacentKey(room, direction) ==
    LET targetPos == getAdjacentPosition(room.gridX, room.gridY, direction)
    IN  gridKey(targetPos.x, targetPos.y)

\* `${room.id}_${direction}`
PendingKey(roomId, direction) == [roomId |-> roomId, direction |-> direction]

RECURSIVE AddDoors(_, _)
AddDoors(room, dirs) ==
    IF Len(dirs) = 0 THEN room
    ELSE AddDoors(addDoor(room, Head(dirs), NullId), Tail(dirs))

\* component.tiles as it is passed to setTiles: the array object of the
\* template.  The catalogs of the live manager give every template its own
\* id, so the id names the array.
TilesOf(component) == component.id

\* returns the manager and the id of the room created
createRoomFromComponent(m, component, gridX, gridY) ==
    LET id == <<Cardinality(DOMAIN m.rooms), component.id>>
        room == AddDoors(
                    setTiles(
                        setGridPosition(
                            RoomOfSize(NewRoom(id, component.type, component.id),
                                       component.width, component.height),
                            gridX, gridY),
                        TilesOf(component)),
                    SlotDirections(component))
    IN  [m |-> [m EXCEPT !.rooms = (id :> room) @@ @,
                         !.grid = (gridKey(gridX, gridY) :> id) @@ @,
                         !.usedComponentIds = @ \cup {component.id}],
         room |-> id]

\* the rooms map after connectRooms(roomA, roomB, directionFromA)
connectRooms(rs, roomA, roomB, directionFromA) ==
    LET back == getOppositeDirection(directionFromA)
        rs1 == IF hasDoor(rs[roomA], directionFromA)
               THEN [rs EXCEPT ![roomA].doors[directionFromA].targetRoomId = roomB]
               ELSE rs
    IN  IF hasDoor(rs1[roomB], back)
        THEN [rs1 EXCEPT ![roomB].doors[back].targetRoomId = roomA]
        ELSE rs1

RECURSIVE RegisterDoors(_, _, _)
RegisterDoors(m, roomId, dirs) ==
    IF Len(dirs) = 0 THEN m
    ELSE LET direction == Head(dirs)
             key == AdjacentKey(m.rooms[roomId], direction)
             next == IF key \in DOMAIN m.grid
                     THEN [m EXCEPT !.rooms =
                              connectRooms(@, roomId, m.grid[key], direction)]
                     ELSE [m EXCEPT !.pendingDoors =
                              @ \cup {PendingKey(roomId, direction)}]
         IN  RegisterDoors(next, roomId, Tail(dirs))

\* mutation: the loop over the doors starts at the second door
registerPendingDoorsSkipFirst(m, roomId) ==
    RegisterDoors(m, roomId, Tail(m.rooms[roomId].doorOrder))

registerPendingDoors(m, roomId) ==
    RegisterDoors(m, roomId, m.rooms[roomId].doorOrder)

\* mutation: the doors are locked whatever the room's type and flag
setCurrentRoomAlwaysLock(m, roomId) ==
    [m EXCEPT !.currentRoom = roomId,
              !.rooms[roomId] = lockDoors(visit(m.rooms[roomId]))]

setCurrentRoom(m, roomId) ==
    LET visited == visit(m.rooms[roomId])
        room == IF visited.type = NORMAL /\ ~ visited.cleared
                THEN lockDoors(visited) ELSE visited
    IN  [m EXCEPT !.currentRoom = roomId, !.rooms[roomId] = room]

\* mutation: the room is created and roomCount is left as it is
createRoomAtDoorNoCount(m, component, fromRoom, direction) ==
    LET targetPos == getAdjacentPosition(m.rooms[fromRoom].gridX,
                                         m.rooms[fromRoom].gridY, direction)
    IN  createRoomFromComponent(m, component, targetPos.x, targetPos.y)

createRoomAtDoor(m, component, fromRoom, direction) ==
    LET targetPos == getAdjacentPosition(m.rooms[fromRoom].gridX,
                                         m.rooms[fromRoom].gridY, direction)
        created == createRoomFromComponent(m, component, targetPos.x, targetPos.y)
    IN  [m |-> [created.m EXCEPT !.roomCount = @ + 1], room |-> created.room]

Max(a, b) == IF a >= b THEN a ELSE b

\* the room type chosen, the boss flag after the choice and the number of
\* draws the choice consumed (chance() is evaluated before roomCount > 2)
ChooseRoomType(m, stream) ==
    IF ~ m.bossPlaced /\ m.roomCount >= maxRooms - 1
    THEN [roomType |-> BOSS, bossPlaced |-> TRUE, used |-> 0]
    ELSE IF chance(stream[1], 15) /\ m.roomCount > 2
         THEN [roomType |-> pick(stream[2], <<TREASURE, SHOP>>),
               bossPlaced |-> m.bossPlaced, used |-> 2]
         ELSE [roomType |-> NORMAL, bossPlaced |-> m.bossPlaced, used |-> 1]

\* mutation: repeats are allowed once two templates are in use
BuildConstraintsEarlyRepeat(m, direction, roomType) ==
    [Constraints(getOppositeDirection(direction)) EXCEPT
        !.requiredType = Some(roomType),
        !.floorNumber = Some(floorNumber),
        !.minDifficulty = Some(Max(1, floorNumber - 1)),
        !.maxDifficulty = Some(floorNumber + 2),
        !.usedRoomIds = IF Cardinality(m.usedComponentIds) > 2 THEN None
                        ELSE Some(m.usedComponentIds)]

BuildConstraints(m, direction, roomType) ==
    [Constraints(getOppositeDirection(direction)) EXCEPT
        !.requiredType = Some(roomType),
        !.floorNumber = Some(floorNumber),
        !.minDifficulty = Some(Max(1, floorNumber - 1)),
        !.maxDifficulty = Some(floorNumber + 2),
        !.usedRoomIds = IF Cardinality(m.usedComponentIds) > 10 THEN None
                        ELSE Some(m.usedComponentIds)]

\* stream: the values of the next calls of rng.next(), in order.  Returns
\* the manager, the id of the room created (NullId for null) and the number
\* of draws consumed.
generateRoomForDoor(m, fromRoom, direction, stream) ==
    LET choice == ChooseRoomType(m, stream)
        m1 == [m EXCEPT !.bossPlaced = choice.bossPlaced]
        constraints == BuildConstraints(m1, direction, choice.roomType)
        component == FindMatching(constraints, stream[choice.used + 1])
        used1 == choice.used + FindMatchingDraws(constraints)
        relaxed == [constraints EXCEPT !.requiredType = None]
        fallback == FindMatching(relaxed, stream[used1 + 1])
        used2 == used1 + FindMatchingDraws(relaxed)
    IN  IF ~ Has(component)
        THEN IF ~ Has(fallback)
             THEN [m |-> m1, room |-> NullId, used |-> used2]
             ELSE createRoomAtDoor(m1, Val(fallback), fromRoom, direction)
                      @@ [used |-> used2]
        ELSE createRoomAtDoor(m1, Val(component), fromRoom, direction)
                 @@ [used |-> used1]

\* the room-entered notification; seen is the manager as a listener finds
\* it when emit calls it
RoomEntered(room, from, seen) ==
    [event |-> "room:entered", room |-> room, from |-> from, seen |-> seen]
RoomCleared(room) == [event |-> "room:cleared", room |-> room, from |-> NullId]

\* enterDoor when no pending record exists for (fromRoom, direction)
EnterExisting(m, fromRoom, direction) ==
    LET key == AdjacentKey(m.rooms[fromRoom], direction)
    IN  IF key \in DOMAIN m.grid
        THEN [m |-> setCurrentRoom(m, m.grid[key]), ret |-> m.grid[key],
              used |-> 0, emitted |-> <<>>]
        ELSE [m |-> m, ret |-> NullId, used |-> 0, emitted |-> <<>>]

\* mutation: the notification is dispatched before setCurrentRoom
FinishEnterEmitEarly(m, g, fromRoom, direction) ==
    IF g.room = NullId
    THEN [m |-> g.m, ret |-> NullId, used |-> g.used, emitted |-> <<>>]
    ELSE LET m1 == [g.m EXCEPT !.pendingDoors =
                       @ \ {PendingKey(fromRoom, direction)}]
             m2 == [m1 EXCEPT !.rooms =
                       connectRooms(@, fromRoom, g.room, direction)]
             m3 == registerPendingDoors(m2, g.room)
             m4 == setCurrentRoom(m3, g.room)
         IN  [m |-> m4, ret |-> g.room, used |-> g.used,
              emitted |-> <<RoomEntered(g.room, fromRoom, m3)>>]

\* what enterDoor does once generateRoomForDoor has returned g
FinishEnter(m, g, fromRoom, direction) ==
    IF g.room = NullId
    THEN [m |-> g.m, ret |-> NullId, used |-> g.used, emitted |-> <<>>]
    ELSE LET m1 == [g.m EXCEPT !.pendingDoors =
                       @ \ {PendingKey(fromRoom, direction)}]
             m2 == [m1 EXCEPT !.rooms =
                       connectRooms(@, fromRoom, g.room, direction)]
             m3 == registerPendingDoors(m2, g.room)
             m4 == setCurrentRoom(m3, g.room)
         IN  [m |-> m4, ret |-> g.room, used |-> g.used,
              emitted |-> <<RoomEntered(g.room, fromRoom, m4)>>]

\* mutation: the pending record is deleted before the null check
EnterPendingDeleteFirst(m, fromRoom, direction, stream) ==
    LET r == FinishEnter(m, generateRoomForDoor(m, fromRoom, direction, stream),
                         fromRoom, direction)
    IN  [r EXCEPT !.m.pendingDoors = @ \ {PendingKey(fromRoom, direction)}]

\* enterDoor when a pending record exists for (fromRoom, direction)
EnterPending(m, fromRoom, direction, stream) ==
    FinishEnter(m, generateRoomForDoor(m, fromRoom, direction, stream),
                fromRoom, direction)

\* mutation: without a pending record and without a room in the target
\* cell, the call goes on to generate a room
enterDoorNoEarlyReturn(m, fromRoom, direction, stream) ==
    IF /\ PendingKey(fromRoom, direction) \notin m.pendingDoors
       /\ AdjacentKey(m.rooms[fromRoom], direction) \in DOMAIN m.grid
    THEN EnterExisting(m, fromRoom, direction)
    ELSE EnterPending(m, fromRoom, direction, stream)

\* returns the manager, the returned room id (NullId for null), the number
\* of draws consumed and the notifications emitted
enterDoor(m, fromRoom, direction, stream) ==
    IF PendingKey(fromRoom, direction) \notin m.pendingDoors
    THEN EnterExisting(m, fromRoom, direction)
    ELSE EnterPending(m, fromRoom, direction, stream)

isFullyExplored == pendingDoors = {}

hasBoss == bossPlaced

getAllRooms == {rooms[id] : id \in DOMAIN rooms}

-----------------------------------------------------------------------------
(* Room template catalogs: the data handed to loadFromJSON. *)

Slot(direction) == [direction |-> direction, position |-> 50, required |-> TRUE]

Component(id, type, dirs, difficulty) ==
    [id |-> id, type |-> type, width |-> 2, height |-> 2,
     sizeCategory |-> "small",
     doorSlots |-> Some([i \in 1 .. Len(dirs) |-> Slot(dirs[i])]),
     tiles |-> Some(TileMatrix(2, 2, 0)), difficulty |-> difficulty,
     minFloor |-> None, maxFloor |-> None, tags |-> None, weight |-> None]

\* rooms whose doors close a square of four cells
CatalogLoop ==
    << Component("start_ne", START, <<NORTH, EAST>>, 1),
       Component("hall_se", NORMAL, <<SOUTH, EAST>>, 1),
       Component("hall_ws", NORMAL, <<WEST, SOUTH>>, 1),
       Component("nook_w", NORMAL, <<WEST>>, 1),
       Component("nook_n", NORMAL, <<NORTH>>, 2) >>

\* the same rooms, the dead end registered before the corner room
CatalogNook ==
    << Component("start_ne", START, <<NORTH, EAST>>, 1),
       Component("hall_se", NORMAL, <<SOUTH, EAST>>, 1),
       Component("nook_w", NORMAL, <<WEST>>, 1),
       Component("hall_ws", NORMAL, <<WEST, SOUTH>>, 1),
       Component("nook_n", NORMAL, <<NORTH>>, 2) >>

\* a corridor going north, with two boss rooms and a treasure room; no room
\* has an EAST slot, so the start room's WEST door leads nowhere
CatalogLine ==
    << Component("start_nw", START, <<NORTH, WEST>>, 1),
       Component("hall_ns", NORMAL, <<SOUTH, NORTH>>, 1),
       Component("lair_sn", BOSS, <<SOUTH, NORTH>>, 3),
       [Component("throne_s", BOSS, <<SOUTH>>, 2) EXCEPT !.minFloor = Some(2)],
       [Component("vault_sn", TREASURE, <<SOUTH, NORTH>>, 1) EXCEPT !.weight = Some(2)] >>

\* no START room with a NORTH slot
CatalogSouth ==
    << Component("start_s", START, <<SOUTH>>, 1),
       Component("hall_ns", NORMAL, <<SOUTH, NORTH>>, 1) >>

\* a corridor going north with ten halls, each five times as likely as the
\* next one
Hall(i, id) ==
    [Component(id, NORMAL, <<SOUTH, NORTH>>, 1) EXCEPT !.weight = Some(5 ^ (10 - i))]

CatalogCorridor ==
    << Component("start_n", START, <<NORTH>>, 1),
       Hall(1, "hall_01"), Hall(2, "hall_02"), Hall(3, "hall_03"),
       Hall(4, "hall_04"), Hall(5, "hall_05"), Hall(6, "hall_06"),
       Hall(7, "hall_07"), Hall(8, "hall_08"), Hall(9, "hall_09"),
       Hall(10, "hall_10") >>

\* the configurations the manager is constructed with
Config(data, floor, max) == [data |-> data, floorNumber |-> floor, maxRooms |-> max]

Configs ==
    { Config(CatalogLoop, 1, 3), Config(CatalogNook, 1, 3),
      Config(CatalogLine, 1, 3), Config(CatalogLine, 2, 3),
      Config(CatalogSouth, 1, 3) }

-----------------------------------------------------------------------------
(* DungeonGenerator.ts.  gen holds the generator's fields (rooms in         *)
(* insertion order, grid), the locals of generate() and the position pc of  *)
(* the call: "idle" before the first call, "walk" in the loop of            *)
(* generateMainPath, "boss" after placeBossRoom, "done" after the return.   *)
(* Room widths and heights are drawn but not kept.  directions is the      *)
(* part of the shuffled array that the loop of placeBossRoom has read,      *)
(* empty before the loop and after generate() has returned.                 *)

GenIdle ==
    [pc |-> "idle", rooms |-> <<>>, grid |-> <<>>, frontier |-> <<>>,
     minRooms |-> 0, maxRooms |-> 0, targetRooms |-> 0,
     startRoom |-> NullId, bossRoom |-> NullId, floorNumber |-> 0,
     directions |-> <<>>]

\* the room with the given id (`room_${n}`)
GenRoom(g, id) == g.rooms[id[1] + 1]

createRoom(g, type, gridX, gridY) ==
    LET id == <<Len(g.rooms), "">>
        room == setGridPosition(NewRoom(id, type, ""), gridX, gridY)
    IN  [g EXCEPT !.rooms = Append(@, room),
                  !.grid = (gridKey(gridX, gridY) :> id) @@ @]

\* mutation: the last neighbour is the cell at (x - 1, y - 1)
addNeighborsToFrontierDiagonal(g, x, y) ==
    LET neighbors == << <<x, y - 1>>, <<x, y + 1>>, <<x + 1, y>>, <<x - 1, y - 1>> >>
    IN  [g EXCEPT !.frontier =
            @ \o SelectSeq(neighbors, LAMBDA n : n \notin DOMAIN g.grid)]

addNeighborsToFrontier(g, x, y) ==
    LET neighbors == << <<x, y - 1>>, <<x, y + 1>>, <<x + 1, y>>, <<x - 1, y>> >>
    IN  [g EXCEPT !.frontier =
            @ \o SelectSeq(neighbors, LAMBDA n : n \notin DOMAIN g.grid)]

\* mutation: splice removes nothing
SpliceKeep(frontier, index) == frontier

\* frontier.splice(index, 1), index 0-based
Splice(frontier, index) ==
    [i \in 1 .. (Len(frontier) - 1) |->
        IF i <= index THEN frontier[i] ELSE frontier[i + 1]]

\* mutation: rooms and grid are not cleared
generateBeginNoClear(g, config, u) ==
    LET g0 == [g EXCEPT
                  !.frontier = <<>>, !.bossRoom = NullId, !.directions = <<>>,
                  !.minRooms = config.minRooms, !.maxRooms = config.maxRooms,
                  !.targetRooms = intBetween(u, config.minRooms, config.maxRooms),
                  !.floorNumber = config.floorNumber]
        g1 == createRoom(g0, START, 0, 0)
        g2 == [g1 EXCEPT !.startRoom = g1.rooms[Len(g1.rooms)].id]
    IN  [addNeighborsToFrontier(g2, 0, 0) EXCEPT !.pc = "walk"]

\* generate() up to the loop of generateMainPath, on a generator in state g:
\* rooms and grid are cleared, the locals of the call are new
generateBegin(g, config, u) ==
    LET g0 == [g EXCEPT
                  !.rooms = <<>>, !.grid = <<>>,
                  !.frontier = <<>>, !.bossRoom = NullId, !.directions = <<>>,
                  !.minRooms = config.minRooms, !.maxRooms = config.maxRooms,
                  !.targetRooms = intBetween(u, config.minRooms, config.maxRooms),
                  !.floorNumber = config.floorNumber]
        g1 == createRoom(g0, START, 0, 0)
        g2 == [g1 EXCEPT !.startRoom = g1.rooms[Len(g1.rooms)].id]
    IN  [addNeighborsToFrontier(g2, 0, 0) EXCEPT !.pc = "walk"]

\* mutation: the loop goes on while rooms.size <= targetRooms
WalkContinuesInclusive(g) ==
    Len(g.rooms) <= g.targetRooms /\ Len(g.frontier) > 0

\* the loop condition of generateMainPath
WalkContinues(g) == Len(g.rooms) < g.targetRooms /\ Len(g.frontier) > 0

\* mutation: a popped cell that is occupied by now is not skipped
walkIterationNoSkip(g, u) ==
    LET index == intBetween(u, 0, Len(g.frontier) - 1)
        pos == g.frontier[index + 1]
        g1 == [g EXCEPT !.frontier = Splice(@, index)]
    IN  addNeighborsToFrontier(createRoom(g1, NORMAL, pos[1], pos[2]),
                               pos[1], pos[2])

\* one iteration of the loop of generateMainPath
walkIteration(g, u) ==
    LET index == intBetween(u, 0, Len(g.frontier) - 1)
        pos == g.frontier[index + 1]
        g1 == [g EXCEPT !.frontier = Splice(@, index)]
    IN  IF pos \in DOMAIN g1.grid THEN g1
        ELSE addNeighborsToFrontier(createRoom(g1, NORMAL, pos[1], pos[2]),
                                    pos[1], pos[2])

Abs(n) == IF n < 0 THEN -n ELSE n

Distance(a, b) == Abs(a.gridX - b.gridX) + Abs(a.gridY - b.gridY)

\* mutation: a room replaces the furthest one when it is nearer
RECURSIVE FurthestFromNearer(_, _, _, _)
FurthestFromNearer(g, i, furthestRoom, maxDistance) ==
    IF i > Len(g.rooms) THEN furthestRoom
    ELSE LET distance == Distance(g.rooms[i], GenRoom(g, g.startRoom))
         IN  IF distance < maxDistance
             THEN FurthestFromNearer(g, i + 1, g.rooms[i].id, distance)
             ELSE FurthestFromNearer(g, i + 1, furthestRoom, maxDistance)

\* mutation: a later room at the same distance replaces the earlier one
RECURSIVE FurthestFromLast(_, _, _, _)
FurthestFromLast(g, i, furthestRoom, maxDistance) ==
    IF i > Len(g.rooms) THEN furthestRoom
    ELSE LET distance == Distance(g.rooms[i], GenRoom(g, g.startRoom))
         IN  IF distance >= maxDistance
             THEN FurthestFromLast(g, i + 1, g.rooms[i].id, distance)
             ELSE FurthestFromLast(g, i + 1, furthestRoom, maxDistance)

\* the scan of placeBossRoom: the first room at maximum distance
RECURSIVE FurthestFrom(_, _, _, _)
FurthestFrom(g, i, furthestRoom, maxDistance) ==
    IF i > Len(g.rooms) THEN furthestRoom
    ELSE LET distance == Distance(g.rooms[i], GenRoom(g, g.startRoom))
         IN  IF distance > maxDistance
             THEN FurthestFrom(g, i + 1, g.rooms[i].id, distance)
             ELSE FurthestFrom(g, i + 1, furthestRoom, maxDistance)

\* mutation: the start room is taken as the furthest room
FurthestRoomStart(g) == g.startRoom

FurthestRoom(g) == FurthestFrom(g, 1, g.startRoom, 0)

BossDirections ==
    << [dx |-> 0, dy |-> -1, dir |-> NORTH], [dx |-> 0, dy |-> 1, dir |-> SOUTH],
       [dx |-> 1, dy |-> 0, dir |-> EAST], [dx |-> -1, dy |-> 0, dir |-> WEST] >>

\* the loop over the shuffled directions: the first unoccupied cell gets
\* the boss room; when there is none, the furthest room itself is returned
RECURSIVE TryBossCells(_, _, _, _)
TryBossCells(g, furthestRoom, directions, i) ==
    IF i > Len(directions) THEN [g EXCEPT !.bossRoom = furthestRoom]
    ELSE LET bossX == GenRoom(g, furthestRoom).gridX + directions[i].dx
             bossY == GenRoom(g, furthestRoom).gridY + directions[i].dy
         IN  IF gridKey(bossX, bossY) \notin DOMAIN g.grid
             THEN [createRoom(g, BOSS, bossX, bossY) EXCEPT
                      !.bossRoom = <<Len(g.rooms), "">>]
             ELSE TryBossCells(g, furthestRoom, directions, i + 1)

\* the number of elements of directions the loop reads, from the i-th on
RECURSIVE BossCellsTried(_, _, _, _)
BossCellsTried(g, furthestRoom, directions, i) ==
    IF i > Len(directions) THEN Len(directions)
    ELSE LET bossX == GenRoom(g, furthestRoom).gridX + directions[i].dx
             bossY == GenRoom(g, furthestRoom).gridY + directions[i].dy
         IN  IF gridKey(bossX, bossY) \notin DOMAIN g.grid THEN i
             ELSE BossCellsTried(g, furthestRoom, directions, i + 1)

placeBossRoom(g, stream) ==
    LET directions == shuffle(BossDirections, stream)
        furthestRoom == FurthestRoom(g)
    IN  [TryBossCells(g, furthestRoom, directions, 1) EXCEPT
            !.directions =
                SubSeq(directions, 1,
                       BossCellsTried(g, furthestRoom, directions, 1))]

\* mutation: the WEST check is missing
getNeighborsNoWest(g, x, y) ==
    SelectSeq(<< [key |-> gridKey(x, y - 1), direction |-> NORTH],
                 [key |-> gridKey(x, y + 1), direction |-> SOUTH],
                 [key |-> gridKey(x + 1, y), direction |-> EAST] >>,
              LAMBDA c : c.key \in DOMAIN g.grid)

\* the occupied neighbour cells of (x, y) with their directions
getNeighbors(g, x, y) ==
    SelectSeq(<< [key |-> gridKey(x, y - 1), direction |-> NORTH],
                 [key |-> gridKey(x, y + 1), direction |-> SOUTH],
                 [key |-> gridKey(x + 1, y), direction |-> EAST],
                 [key |-> gridKey(x - 1, y), direction |-> WEST] >>,
              LAMBDA c : c.key \in DOMAIN g.grid)

RECURSIVE ConnectNeighbors(_, _, _)
ConnectNeighbors(g, room, neighbors) ==
    IF Len(neighbors) = 0 THEN room
    ELSE LET n == Head(neighbors)
             next == IF ~ hasDoor(room, n.direction)
                     THEN addDoor(room, n.direction, g.grid[n.key])
                     ELSE room
         IN  ConnectNeighbors(g, next, Tail(neighbors))

\* DungeonGenerator.connectRooms
GenConnectRooms(g) ==
    [g EXCEPT !.rooms =
        [i \in 1 .. Len(g.rooms) |->
            ConnectNeighbors(g, g.rooms[i],
                getNeighbors(g, g.rooms[i].gridX, g.rooms[i].gridY))]]

\* placeSpecialRooms changes no room: it only shuffles a copy of the list
placeSpecialRooms(g) == g

\* the DungeonFloor returned by generate() on a generator in state g
FloorOf(g) ==
    [rooms |-> g.rooms, startRoom |-> g.startRoom,
     bossRoom |-> g.bossRoom, floorNumber |-> g.floorNumber]

Floor == FloorOf(gen)

\* the configurations generate() is called with: minRooms = maxRooms, or
\* maxRooms = minRooms + 1
GenConfigs ==
    {c \in [minRooms : 1 .. MaxTarget, maxRooms : 1 .. MaxTarget,
            floorNumber : {1}] :
        c.maxRooms - c.minRooms \in {0, 1}}

InitGen ==
    /\ components = <<>>
    /\ byType = EmptyRegistry.byType
    /\ byDoor = EmptyRegistry.byDoor
    /\ rooms = <<>>
    /\ grid = <<>>
    /\ pendingDoors = {}
    /\ usedComponentIds = {}
    /\ floorNumber = 1
    /\ maxRooms = 0
    /\ startRoom = NullId
    /\ currentRoom = NullId
    /\ roomCount = 0
    /\ bossPlaced = FALSE
    /\ call = NoCall
    /\ emitted = <<>>
    /\ gen = GenIdle
    /\ gen2 = GenIdle
    /\ query = NoQuery
    /\ rng = NoRng

\* generate(config) is called with the same seed on the generator gen,
\* which may have been used before, and on a new DungeonGenerator gen2; both
\* run up to the loop of generateMainPath.  The two rngs are seeded alike,
\* so their next() calls return the same values.
GenerateBegin ==
    /\ gen.pc \in {"idle", "done"}
    /\ \E config \in GenConfigs : \E u \in DrawsAt(WalkRes) :
          /\ config.minRooms <= config.maxRooms
          /\ gen' = generateBegin(gen, config, u)
          /\ gen2' = generateBegin(GenIdle, config, u)
    /\ UNCHANGED <<regVars, liveVars, query, rng>>

\* one iteration of the loop in each call whose loop has not ended
WalkIteration ==
    /\ gen.pc = "walk"
    /\ WalkContinues(gen) \/ WalkContinues(gen2)
    /\ \E u \in DrawsAt(WalkRes) :
          /\ gen' = IF WalkContinues(gen) THEN walkIteration(gen, u) ELSE gen
          /\ gen2' = IF WalkContinues(gen2) THEN walkIteration(gen2, u) ELSE gen2
    /\ UNCHANGED <<regVars, liveVars, query, rng>>

PlaceBossRoom ==
    /\ gen.pc = "walk"
    /\ ~ WalkContinues(gen) /\ ~ WalkContinues(gen2)
    /\ \E stream \in [1 .. 3 -> Draws] :
          /\ gen' = [placeBossRoom(gen, stream) EXCEPT !.pc = "boss"]
          /\ gen2' = [placeBossRoom(gen2, stream) EXCEPT !.pc = "boss"]
    /\ UNCHANGED <<regVars, liveVars, query, rng>>

\* placeSpecialRooms, connectRooms and the return of generate()
GenerateEnd ==
    /\ gen.pc = "boss"
    /\ gen' = [GenConnectRooms(placeSpecialRooms(gen)) EXCEPT
                  !.pc = "done", !.directions = <<>>]
    /\ gen2' = [GenConnectRooms(placeSpecialRooms(gen2)) EXCEPT
                   !.pc = "done", !.directions = <<>>]
    /\ UNCHANGED <<regVars, liveVars, query, rng>>

NextGen == GenerateBegin \/ WalkIteration \/ PlaceBossRoom \/ GenerateEnd

SpecGen == InitGen /\ [][NextGen]_vars

-----------------------------------------------------------------------------
(* The live manager: state after construction, and the public methods. *)


\* the state after new LiveDungeonManager(...) with one of the configurations
Constructed(configs) ==
    /\ \E config \in configs :
          LET reg == LoadFromJSON(config.data)
          IN  /\ components = reg.components
              /\ byType = reg.byType
              /\ byDoor = reg.byDoor
              /\ floorNumber = config.floorNumber
              /\ maxRooms = config.maxRooms
    /\ rooms = <<>>
    /\ grid = <<>>
    /\ pendingDoors = {}
    /\ usedComponentIds = {}
    /\ startRoom = NullId
    /\ currentRoom = NullId
    /\ roomCount = 0
    /\ bossPlaced = FALSE
    /\ call = NoCall
    /\ emitted = <<>>
    /\ gen = GenIdle
    /\ gen2 = GenIdle
    /\ query = NoQuery
    /\ rng = NoRng

InitLive == Constructed(Configs)

\* assigns the manager's mutable fields from the record m
SetManager(m) ==
    /\ rooms' = m.rooms
    /\ grid' = m.grid
    /\ pendingDoors' = m.pendingDoors
    /\ usedComponentIds' = m.usedComponentIds
    /\ startRoom' = m.startRoom
    /\ currentRoom' = m.currentRoom
    /\ roomCount' = m.roomCount
    /\ bossPlaced' = m.bossPlaced

\* the manager after a successful initialize() that found startComponent
initialize(m, startComponent) ==
    LET created == createRoomFromComponent(m, startComponent, 0, 0)
        m1 == [created.m EXCEPT !.startRoom = created.room,
                                !.currentRoom = created.room,
                                !.roomCount = 1]
    IN  registerPendingDoors(m1, created.room)

Initialize ==
    /\ startRoom = NullId
    /\ call.op # "initialize"
    /\ \E u \in Draws :
          LET startComponent ==
                  FindMatching([Constraints(NORTH) EXCEPT
                                   !.requiredType = Some(START)], u)
          IN  IF ~ Has(startComponent)
              THEN /\ call' = [NoCall EXCEPT !.op = "initialize", !.threw = TRUE]
                   /\ UNCHANGED <<rooms, grid, pendingDoors, usedComponentIds,
                                  startRoom, currentRoom, roomCount, bossPlaced>>
              ELSE LET m == initialize(Manager, Val(startComponent))
                   IN  /\ SetManager(m)
                       /\ call' = [NoCall EXCEPT !.op = "initialize",
                                                 !.ret = m.startRoom,
                                                 !.used = 1]
    /\ emitted' = <<>>
    /\ UNCHANGED <<regVars, floorNumber, maxRooms, genVars, query, rng>>

\* the manager and the call record after enterDoor returned r
EnterDoorReturn(r, fromRoom, direction) ==
    /\ r.m.roomCount <= MaxGenerated
    /\ SetManager(r.m)
    /\ call' = [op |-> "enterDoor", fromRoom |-> fromRoom,
                direction |-> direction, ret |-> r.ret, threw |-> FALSE,
                used |-> r.used]
    /\ emitted' = r.emitted
    /\ UNCHANGED <<regVars, floorNumber, maxRooms, genVars, query, rng>>

\* enterDoor(currentRoom, direction): the presentation layer passes the room
\* the player is in.  A value is drawn for the k-th next() call only when
\* the call consumes at least k values.
EnterDoor ==
    \E fromRoom \in DOMAIN rooms \cap {currentRoom}, direction \in DoorDirection :
    \E r0 \in {enterDoor(Manager, fromRoom, direction,
                         <<ZeroDraw, ZeroDraw, ZeroDraw>>)} :
        IF r0.used < 1 THEN EnterDoorReturn(r0, fromRoom, direction)
        ELSE \E u1 \in Draws :
             \E r1 \in {enterDoor(Manager, fromRoom, direction,
                                  <<u1, ZeroDraw, ZeroDraw>>)} :
                 IF r1.used < 2 THEN EnterDoorReturn(r1, fromRoom, direction)
                 ELSE \E u2 \in Draws :
                      \E r2 \in {enterDoor(Manager, fromRoom, direction,
                                           <<u1, u2, ZeroDraw>>)} :
                          IF r2.used < 3
                          THEN EnterDoorReturn(r2, fromRoom, direction)
                          ELSE \E u3 \in Draws :
                               \E r3 \in {enterDoor(Manager, fromRoom, direction,
                                                    <<u1, u2, u3>>)} :
                                   EnterDoorReturn(r3, fromRoom, direction)

\* clearCurrentRoom() may be called at any time, also before initialize();
\* it is explored while the floor has at most MaxCleared rooms
ClearCurrentRoom ==
    /\ roomCount <= MaxCleared
    /\ IF currentRoom # NullId
       THEN /\ rooms' = [rooms EXCEPT ![currentRoom] = clear(@)]
            /\ emitted' = <<RoomCleared(currentRoom)>>
       ELSE /\ emitted' = <<>>
            /\ UNCHANGED rooms
    /\ call' = [NoCall EXCEPT !.op = "clearCurrentRoom"]
    /\ UNCHANGED <<regVars, grid, pendingDoors, usedComponentIds, floorNumber,
                   maxRooms, startRoom, currentRoom, roomCount, bossPlaced,
                   genVars, query, rng>>

NextLive == Initialize \/ EnterDoor \/ ClearCurrentRoom

SpecLive == InitLive /\ [][NextLive]_vars

\* the same manager on a floor long enough to use more than ten templates
InitFloor == Constructed({Config(CatalogCorridor, 1, 3)})

SpecFloor == InitFloor /\ [][NextLive]_vars

-----------------------------------------------------------------------------
(* Room.getTile and Room.setTile on the rooms of a live floor.  The array   *)
(* of a template is the field tiles of its record; the registry's three     *)
(* indexes hold the same template object, so a write to the array shows in  *)
(* all three.                                                                *)

\* the cells (x, y) and the value passed to setTile: the first and the last
\* cell of a 2 x 2 matrix, a cell left of it and a cell below it
TilePoints == {<<0, 0>>, <<1, 1>>, <<-1, 0>>, <<0, 2>>}
TileValues == {1}

\* the array a reference names
ArrayOf(tiles) ==
    LET i == CHOOSE i \in 1 .. Len(components) : TilesOf(components[i]) = tiles
    IN  Val(components[i].tiles)

getTiles(room) == ArrayOf(room.tiles)

getTile(room, x, y) ==
    IF x < 0 \/ x >= room.width \/ y < 0 \/ y >= room.height THEN -1
    ELSE getTiles(room)[y + 1][x + 1]

\* a template after this.tiles[y][x] = value on the array `tiles`
WriteArray(component, tiles, x, y, value) ==
    IF TilesOf(component) = tiles /\ Has(component.tiles)
    THEN [component EXCEPT !.tiles = Some(WriteTile(Val(@), x, y, value))]
    ELSE component

WriteAll(entries, tiles, x, y, value) ==
    [i \in 1 .. Len(entries) |-> WriteArray(entries[i], tiles, x, y, value)]

\* the number of cells of the templates that hold a written value
WrittenCells ==
    Cardinality({c \in (1 .. Len(components)) \X (1 .. 2) \X (1 .. 2) :
                    Val(components[c[1]].tiles)[c[3]][c[2]] \in TileValues})

\* rooms.get(id).setTile(x, y, value), explored while fewer than MaxWritten
\* cells have been written
SetTile ==
    /\ WrittenCells < MaxWritten
    /\ \E id \in DOMAIN rooms, point \in TilePoints, value \in TileValues :
          LET x == point[1]
              y == point[2]
          IN
          /\ IF InRange(rooms[id], x, y)
             THEN /\ components' = WriteAll(components, rooms[id].tiles, x, y, value)
                  /\ byType' = [t \in RoomType |->
                                   WriteAll(byType[t], rooms[id].tiles, x, y, value)]
                  /\ byDoor' = [d \in DoorDirection |->
                                   WriteAll(byDoor[d], rooms[id].tiles, x, y, value)]
             ELSE UNCHANGED regVars
          /\ call' = [room |-> id, x |-> x, y |-> y, value |-> value] @@
                         [NoCall EXCEPT !.op = "setTile"]
    /\ emitted' = <<>>
    /\ UNCHANGED <<rooms, grid, pendingDoors, usedComponentIds, floorNumber,
                   maxRooms, startRoom, currentRoom, roomCount, bossPlaced,
                   genVars, query, rng>>

InitTiles == Constructed({Config(CatalogLoop, 1, 3), Config(CatalogCorridor, 1, 3)})

NextTiles == Initialize \/ EnterDoor \/ SetTile

SpecTiles == InitTiles /\ [][NextTiles]_vars

-----------------------------------------------------------------------------
(* The registry on its own: register, loadFromJSON, clear and the queries. *)
(* Two template objects are the same object iff they are equal records.    *)

TemplateA1 == Component("a", NORMAL, <<NORTH>>, 1)
\* another template with the id of TemplateA1
TemplateA2 ==
    [Component("a", TREASURE, <<NORTH, SOUTH>>, 2) EXCEPT
        !.tags = Some({"fire"}), !.sizeCategory = "large"]
TemplateEntry == Component("entry", START, <<NORTH>>, 1)
TemplateNoId == [Component("", NORMAL, <<NORTH>>, 1) EXCEPT !.weight = Some(2)]
TemplateNoTiles == [Component("bare", NORMAL, <<NORTH, SOUTH>>, 1) EXCEPT !.tiles = None]
TemplateNoSlots == [Component("sealed", NORMAL, <<>>, 1) EXCEPT !.doorSlots = None]
TemplateDeep == [Component("deep", NORMAL, <<NORTH>>, 1) EXCEPT !.minFloor = Some(2)]
TemplateShallow ==
    [Component("shallow", NORMAL, <<NORTH, SOUTH>>, 2) EXCEPT
        !.maxFloor = Some(1), !.weight = Some(3)]
TemplateMid ==
    [Component("mid", BOSS, <<SOUTH>>, 3) EXCEPT
        !.minFloor = Some(2), !.maxFloor = Some(2)]

\* the templates handed to register()
RegisterPool ==
    {TemplateA1, TemplateA2, TemplateEntry,
     TemplateNoId, TemplateNoTiles, TemplateNoSlots}

\* the catalogs handed to loadFromJSON()
DataEntry == <<TemplateEntry>>
DataFloors == <<TemplateDeep, TemplateShallow, TemplateMid, TemplateA1>>
DataMixed ==
    <<TemplateNoId, TemplateA2, TemplateNoTiles, TemplateNoSlots, TemplateEntry>>
DataDuplicate == <<TemplateA1, TemplateA2>>
DataSets == {DataEntry, DataFloors, DataMixed, DataDuplicate}

\* the constraints of the queries
QueriesFor(d) ==
    { Constraints(d),
      [Constraints(d) EXCEPT !.requiredType = Some(START)],
      [Constraints(d) EXCEPT !.floorNumber = Some(1)],
      [Constraints(d) EXCEPT !.floorNumber = Some(3)],
      [Constraints(d) EXCEPT !.allowedSizes = Some({"large"})],
      [Constraints(d) EXCEPT !.maxDifficulty = Some(1)],
      [Constraints(d) EXCEPT !.minDifficulty = Some(2)],
      [Constraints(d) EXCEPT !.requiredTags = Some({"fire"})],
      [Constraints(d) EXCEPT !.excludedTags = Some({"fire"})],
      [Constraints(d) EXCEPT !.usedRoomIds = Some({"a"})] }

Queries == QueriesFor(NORTH) \cup QueriesFor(SOUTH)

\* the Partial<RoomConstraints> handed to findForDoor
PartialQueries ==
    { Constraints(None), Constraints(Some(NORTH)), Constraints(Some(EAST)),
      [Constraints(Some(SOUTH)) EXCEPT !.requiredType = Some(START)] }

Registry == [components |-> components, byType |-> byType, byDoor |-> byDoor]

SetRegistry(reg) ==
    /\ components' = reg.components
    /\ byType' = reg.byType
    /\ byDoor' = reg.byDoor

\* the templates pushed into the byType index so far
RegisteredCount == SumSeq([i \in 1 .. 5 |->
    Len(byType[<<START, NORMAL, TREASURE, SHOP, BOSS>>[i]])])

InitReg ==
    /\ components = EmptyRegistry.components
    /\ byType = EmptyRegistry.byType
    /\ byDoor = EmptyRegistry.byDoor
    /\ rooms = <<>>
    /\ grid = <<>>
    /\ pendingDoors = {}
    /\ usedComponentIds = {}
    /\ floorNumber = 1
    /\ maxRooms = 0
    /\ startRoom = NullId
    /\ currentRoom = NullId
    /\ roomCount = 0
    /\ bossPlaced = FALSE
    /\ call = NoCall
    /\ emitted = <<>>
    /\ gen = GenIdle
    /\ gen2 = GenIdle
    /\ query = NoQuery
    /\ rng = NoRng

RegisterTemplate ==
    /\ RegisteredCount < MaxRegistered
    /\ \E component \in RegisterPool :
          /\ SetRegistry(Register(Registry, component))
          /\ query' = [op |-> "register", component |-> component,
                       threw |-> FALSE]
    /\ UNCHANGED <<liveVars, genVars, rng>>

LoadCatalog ==
    /\ \E data \in DataSets :
          /\ SetRegistry(LoadFromJSON(data))
          /\ query' = [op |-> "loadFromJSON", data |-> data, threw |-> FALSE]
    /\ UNCHANGED <<liveVars, genVars, rng>>

ClearRegistry ==
    /\ SetRegistry(EmptyRegistry)
    /\ query' = [op |-> "clear"]
    /\ UNCHANGED <<liveVars, genVars, rng>>

FindAllMatchingQuery ==
    /\ \E constraints \in Queries :
          query' = [op |-> "findAllMatching", constraints |-> constraints,
                    ret |-> FindAllMatching(constraints)]
    /\ UNCHANGED <<regVars, liveVars, genVars, rng>>

FindMatchingQuery ==
    /\ \E constraints \in Queries : \E u \in Draws :
          query' = [op |-> "findMatching", constraints |-> constraints,
                    u |-> u, ret |-> FindMatching(constraints, u)]
    /\ UNCHANGED <<regVars, liveVars, genVars, rng>>

FindForDoorQuery ==
    /\ \E fromDirection \in DoorDirection : \E constraints \in PartialQueries :
       \E u \in Draws :
          query' = [op |-> "findForDoor", fromDirection |-> fromDirection,
                    constraints |-> constraints, u |-> u,
                    ret |-> FindForDoor(fromDirection, constraints, u)]
    /\ UNCHANGED <<regVars, liveVars, genVars, rng>>

OppositeQuery ==
    /\ \E dir \in DoorDirection :
          query' = [op |-> "getOppositeDirection", dir |-> dir,
                    ret |-> getOppositeDirection(dir)]
    /\ UNCHANGED <<regVars, liveVars, genVars, rng>>

NextReg ==
    \/ RegisterTemplate \/ LoadCatalog \/ ClearRegistry
    \/ FindAllMatchingQuery \/ FindMatchingQuery \/ FindForDoorQuery
    \/ OppositeQuery

SpecReg == InitReg /\ [][NextReg]_vars

-----------------------------------------------------------------------------
(* Random.ts: SeededRandom on its state words.  A word is 32 bits, least
   significant first.  A Number beyond 32 bits is [neg, mag], mag its
   magnitude on NumWidth bits; ToDouble keeps the 53 significant bits an
   IEEE double holds. *)

NumWidth == 96

\* a function on 1 .. n as the sequence it is
AsSeq(f) == SubSeq(f, 1, Len(f))

ZeroBits(width) == AsSeq([i \in 1 .. width |-> 0])
ZeroWord == ZeroBits(32)

\* the bits of an integer 0 <= n < 2^31
BitsOf(n, width) ==
    AsSeq([i \in 1 .. width |->
             IF i <= 31 THEN (n \div (2 ^ (i - 1))) % 2 ELSE 0])

\* the integer of bits[first .. last]
RECURSIVE ValueFrom(_, _, _)
ValueFrom(bits, first, last) ==
    IF first > last THEN 0
    ELSE bits[first] + 2 * ValueFrom(bits, first + 1, last)

Xor(a, b) == AsSeq([i \in 1 .. Len(a) |-> (a[i] + b[i]) % 2])
Or(a, b) == AsSeq([i \in 1 .. Len(a) |-> IF a[i] + b[i] > 0 THEN 1 ELSE 0])
Not(a) == AsSeq([i \in 1 .. Len(a) |-> 1 - a[i]])
\* a << k and a >>> k
Shl(a, k) == AsSeq([i \in 1 .. Len(a) |-> IF i > k THEN a[i - k] ELSE 0])
Shr(a, k) ==
    AsSeq([i \in 1 .. Len(a) |-> IF i + k <= Len(a) THEN a[i + k] ELSE 0])
\* the low `width` bits, zero-extended
Resize(a, width) ==
    AsSeq([i \in 1 .. width |-> IF i <= Len(a) THEN a[i] ELSE 0])

\* a bit sequence as digits of base 4096, least significant first, and back
Limbs(bits) ==
    AsSeq([k \in 1 .. ((Len(bits) + 11) \div 12) |->
             ValueFrom(bits, 12 * (k - 1) + 1,
                       IF 12 * k < Len(bits) THEN 12 * k ELSE Len(bits))])

BitsOfLimbs(limbs, width) ==
    AsSeq([i \in 1 .. width |->
             (limbs[((i - 1) \div 12) + 1] \div (2 ^ ((i - 1) % 12))) % 2])

\* the carries of digits[i ..] propagated upwards; the last one is dropped
RECURSIVE Normalize(_, _, _)
Normalize(digits, i, carry) ==
    IF i > Len(digits) THEN <<>>
    ELSE LET s == digits[i] + carry
         IN  <<s % 4096>> \o Normalize(digits, i + 1, s \div 4096)

\* a + b, a - b and a * m modulo 2^Len
Add(a, b) ==
    LET x == Limbs(a)
        y == Limbs(b)
    IN  BitsOfLimbs(Normalize(AsSeq([k \in 1 .. Len(x) |-> x[k] + y[k]]), 1, 0),
                    Len(a))
Neg(a) == Add(Not(a), BitsOf(1, Len(a)))
Sub(a, b) == Add(a, Neg(b))

\* a of at most 36 bits
Mul(a, m) ==
    LET x == Limbs(a)
        y == Limbs(m)
        column(k) == SumSeq(AsSeq([i \in 1 .. Len(x) |->
                                     IF i <= k THEN x[i] * y[k - i + 1] ELSE 0]))
    IN  BitsOfLimbs(Normalize(AsSeq([k \in 1 .. Len(y) |-> column(k)]), 1, 0),
                    Len(m))

\* the position of the highest set bit, 0 if there is none
BitLength(bits) ==
    LET set == {i \in 1 .. Len(bits) : bits[i] = 1}
    IN  IF set = {} THEN 0 ELSE CHOOSE i \in set : \A j \in set : j <= i

\* an integer magnitude as the nearest double (round half to even)
ToDouble(mag) ==
    LET k == BitLength(mag) - 53
    IN  IF k <= 0 THEN mag
        ELSE LET kept == AsSeq([i \in 1 .. Len(mag) |->
                                  IF i > k THEN mag[i] ELSE 0])
                 half == mag[k] = 1
                 sticky == \E i \in 1 .. (k - 1) : mag[i] = 1
                 odd == mag[k + 1] = 1
             IN  IF half /\ (sticky \/ odd)
                 THEN Add(kept, Shl(BitsOf(1, Len(mag)), k))
                 ELSE kept

\* a hexadecimal literal (digits most significant first) as a double
HexLiteral(digits) ==
    ToDouble(AsSeq([i \in 1 .. NumWidth |->
                LET j == i - 1
                IN  IF j \div 4 < Len(digits)
                    THEN (digits[Len(digits) - (j \div 4)] \div (2 ^ (j % 4))) % 2
                    ELSE 0]))

\* 0x9e3779b97f4a7c15, 0xbf58476d1ce4e5b9, 0x94d049bb133111eb
Golden == HexLiteral(<<9, 14, 3, 7, 7, 9, 11, 9, 7, 15, 4, 10, 7, 12, 1, 5>>)
Mix1 == HexLiteral(<<11, 15, 5, 8, 4, 7, 6, 13, 1, 12, 14, 4, 14, 5, 11, 9>>)
Mix2 == HexLiteral(<<9, 4, 13, 0, 4, 9, 11, 11, 1, 3, 3, 1, 1, 1, 14, 11>>)

\* an integer seed as a Number
NumberOf(n) == [neg |-> n < 0, mag |-> BitsOf(IF n < 0 THEN 0 - n ELSE n, NumWidth)]

\* x | 0 and x >>> 0: the low 32 bits of a Number, in two's complement
ToInt32(x) ==
    LET low == Resize(x.mag, 32) IN IF x.neg THEN Neg(low) ELSE low

\* the Number a 32-bit word is when read as a signed integer
FromInt32(w) ==
    IF w[32] = 1 THEN [neg |-> TRUE, mag |-> Resize(Neg(w), NumWidth)]
    ELSE [neg |-> FALSE, mag |-> Resize(w, NumWidth)]

\* s + 0x9e3779b97f4a7c15 in double arithmetic
PlusGolden(s) ==
    [neg |-> FALSE,
     mag |-> ToDouble(IF s.neg THEN Sub(Golden, s.mag) ELSE Add(Golden, s.mag))]

\* a signed 32-bit word times a constant, in double arithmetic
Times(w, constant) ==
    LET x == FromInt32(w)
    IN  [neg |-> x.neg, mag |-> ToDouble(Mul(Resize(x.mag, 32), constant))]

\* lines 35-39: z = s, two multiply-xorshift rounds, z ^ (z >>> 31), >>> 0
MixWord(s) ==
    LET z1 == ToInt32(Times(Xor(s, Shr(s, 30)), Mix1))
        z2 == ToInt32(Times(Xor(z1, Shr(z1, 27)), Mix2))
    IN  Xor(z2, Shr(z2, 31))

\* the loop of setSeed from iteration i on: the words it stores
RECURSIVE SplitMixFrom(_, _)
SplitMixFrom(s, i) ==
    IF i >= 4 THEN <<>>
    ELSE LET sum == ToInt32(PlusGolden(s))
         IN  <<MixWord(sum)>> \o SplitMixFrom(FromInt32(sum), i + 1)

\* the seeds instances are built from
Seeds == {0, 1, 42, 1024, 12345, 0 - 7, 2147483647}

\* the four words setSeed computes, per seed
SplitMix == [seed \in Seeds |-> SplitMixFrom(NumberOf(seed), 0)]

\* setSeed storing state[i] ^ seed: no mixing, and the old state kept
setSeedXorInto(state, seed) ==
    AsSeq([i \in 1 .. 4 |-> Xor(state[i], ToInt32(NumberOf(seed)))])

\* setSeed: every word of the state is overwritten
setSeed(state, seed) ==
    AsSeq([i \in 1 .. 4 |-> SplitMix[seed][i]])

\* new SeededRandom(seed)
NewSeededRandom(seed) ==
    setSeed(<<ZeroWord, ZeroWord, ZeroWord, ZeroWord>>, seed)

Rotl(w, k) == Or(Shl(w, k), Shr(w, 32 - k))

\* next(): the new state and result, the numerator of result / 0x100000000
rngNext(state) ==
    LET s0 == state[1]
        s1 == Xor(state[2], s0)
        s2 == state[3]
        s3 == Xor(state[4], s2)
    IN  [state |-> <<Xor(Xor(Rotl(s0, 24), s1), Shl(s1, 16)),
                     Rotl(s1, 17),
                     Xor(Xor(Rotl(s2, 19), s3), Shl(s3, 21)),
                     Rotl(s3, 5)>>,
         out |-> Add(state[1], state[4])]

\* next() * n for an integer 0 <= n < 2^15: its floor, and whether it is
\* an integer
Scaled(result, n) ==
    LET low == ValueFrom(result, 1, 16) * n
        mid == ValueFrom(result, 17, 32) * n + (low \div 65536)
    IN  [floor |-> mid \div 65536,
         exact |-> low % 65536 = 0 /\ mid % 65536 = 0]

\* intBetween without the "+ min"
rngIntBetweenNoMin(state, min, max) ==
    LET r == rngNext(state)
    IN  [state |-> r.state, out |-> Scaled(r.out, max - min + 1).floor]

rngIntBetween(state, min, max) ==
    LET r == rngNext(state)
    IN  [state |-> r.state, out |-> Scaled(r.out, max - min + 1).floor + min]

\* next() < probability, for a probability num / den with den a power of 2
rngChance(state, probability) ==
    LET r == rngNext(state)
    IN  [state |-> r.state,
         out |-> Scaled(r.out, probability.den).floor < probability.num]

rngPick(state, array) ==
    LET r == rngIntBetween(state, 0, Len(array) - 1)
    IN  [state |-> r.state, out |-> array[r.out + 1]]

RECURSIVE rngShuffleFrom(_, _, _)
rngShuffleFrom(state, array, i) ==
    IF i <= 0 THEN [state |-> state, out |-> array]
    ELSE LET r == rngIntBetween(state, 0, i)
         IN  rngShuffleFrom(r.state, Swap(array, i, r.out), i - 1)

rngShuffle(state, array) == rngShuffleFrom(state, array, Len(array) - 1)

\* the sum of weights[1 .. i]
RECURSIVE Cumulative(_, _)
Cumulative(weights, i) ==
    IF i = 0 THEN 0 ELSE weights[i] + Cumulative(weights, i - 1)

\* the first i with next() * totalWeight - weights[1..i] <= 0, else the last
rngWeightedPick(state, items, weights) ==
    LET r == rngNext(state)
        random == Scaled(r.out, SumSeq(weights))
        hit == {i \in 1 .. Len(items) :
                   \/ random.floor < Cumulative(weights, i)
                   \/ random.floor = Cumulative(weights, i) /\ random.exact}
    IN  [state |-> r.state,
         out |-> IF hit = {} THEN items[Len(items)]
                 ELSE items[CHOOSE i \in hit : \A j \in hit : i <= j]]

-----------------------------------------------------------------------------
(* Two SeededRandom instances a and b given the same calls.  rng.calls
   counts the calls made on a since it was built. *)

\* arrays handed to pick and shuffle
Arrays ==
    {<<"a">>, <<"a", "b">>, <<"b", "b">>, <<"a", "b", "c">>,
     <<"c", "a", "b", "a">>}
\* items and weights handed to weightedPick
WeightedLists ==
    {[items |-> <<"a">>, weights |-> <<1>>],
     [items |-> <<"a", "b">>, weights |-> <<1, 2>>],
     [items |-> <<"a", "b">>, weights |-> <<0, 1>>],
     [items |-> <<"a", "b", "c">>, weights |-> <<2, 1, 1>>],
     [items |-> <<"a", "b", "c">>, weights |-> <<0, 0, 0>>]}
\* min and max handed to intBetween
Ranges == {<<0, 0>>, <<0, 1>>, <<1, 6>>, <<3, 5>>, <<0, 9>>, <<2, 2>>}
Probabilities ==
    {[num |-> 0, den |-> 1], [num |-> 1, den |-> 4], [num |-> 1, den |-> 2],
     [num |-> 3, den |-> 4], [num |-> 1, den |-> 1]}

InitRng ==
    /\ components = EmptyRegistry.components
    /\ byType = EmptyRegistry.byType
    /\ byDoor = EmptyRegistry.byDoor
    /\ rooms = <<>>
    /\ grid = <<>>
    /\ pendingDoors = {}
    /\ usedComponentIds = {}
    /\ floorNumber = 1
    /\ maxRooms = 0
    /\ startRoom = NullId
    /\ currentRoom = NullId
    /\ roomCount = 0
    /\ bossPlaced = FALSE
    /\ call = NoCall
    /\ emitted = <<>>
    /\ gen = GenIdle
    /\ gen2 = GenIdle
    /\ query = NoQuery
    /\ rng = NoRng

\* the same call, made on both instances
Called(op, args, ra, rb) ==
    rng' = [rng EXCEPT !.op = op, !.args = args, !.a = ra.state,
                       !.b = rb.state, !.outA = ra.out, !.outB = rb.out,
                       !.calls = @ + 1]

CanCall == rng.op # "none" /\ rng.calls < MaxCalls

NewPair ==
    /\ \E seed \in Seeds :
          rng' = [op |-> "new", args |-> <<seed>>,
                  a |-> NewSeededRandom(seed), b |-> NewSeededRandom(seed),
                  outA |-> <<>>, outB |-> <<>>, calls |-> 0,
                  reseeded |-> FALSE]
    /\ UNCHANGED <<regVars, liveVars, genVars, query>>

\* a.setSeed(seed) on the used instance, b replaced by a fresh instance
Reseed ==
    /\ rng.op # "none"
    /\ \E seed \in Seeds :
          rng' = [rng EXCEPT !.op = "setSeed", !.args = <<seed>>,
                             !.a = setSeed(rng.a, seed),
                             !.b = NewSeededRandom(seed),
                             !.outA = <<>>, !.outB = <<>>,
                             !.reseeded = TRUE]
    /\ UNCHANGED <<regVars, liveVars, genVars, query>>

CallNext ==
    /\ CanCall
    /\ Called("next", <<>>, rngNext(rng.a), rngNext(rng.b))
    /\ UNCHANGED <<regVars, liveVars, genVars, query>>

CallIntBetween ==
    /\ CanCall
    /\ \E range \in Ranges :
          Called("intBetween", range,
                 rngIntBetween(rng.a, range[1], range[2]),
                 rngIntBetween(rng.b, range[1], range[2]))
    /\ UNCHANGED <<regVars, liveVars, genVars, query>>

CallChance ==
    /\ CanCall
    /\ \E p \in Probabilities :
          Called("chance", <<p>>, rngChance(rng.a, p), rngChance(rng.b, p))
    /\ UNCHANGED <<regVars, liveVars, genVars, query>>

CallPick ==
    /\ CanCall
    /\ \E array \in Arrays :
          Called("pick", <<array>>, rngPick(rng.a, array), rngPick(rng.b, array))
    /\ UNCHANGED <<regVars, liveVars, genVars, query>>

CallShuffle ==
    /\ CanCall
    /\ \E array \in Arrays :
          Called("shuffle", <<array>>,
                 rngShuffle(rng.a, array), rngShuffle(rng.b, array))
    /\ UNCHANGED <<regVars, liveVars, genVars, query>>

CallWeightedPick ==
    /\ CanCall
    /\ \E list \in WeightedLists :
          Called("weightedPick", <<list.items, list.weights>>,
                 rngWeightedPick(rng.a, list.items, list.weights),
                 rngWeightedPick(rng.b, list.items, list.weights))
    /\ UNCHANGED <<regVars, liveVars, genVars, query>>

NextRng ==
    \/ NewPair \/ Reseed
    \/ CallNext \/ CallIntBetween \/ CallChance
    \/ CallPick \/ CallShuffle \/ CallWeightedPick

SpecRng == InitRng /\ [][NextRng]_vars

-----------------------------------------------------------------------------
(* generate() with the draws its own SeededRandom returns: the generator of *)
(* the second section, the rng of this one.                                 *)

MIN_ROOMS_PER_FLOOR == 6
MAX_ROOMS_PER_FLOOR == 12

\* the number of next() calls tabulated per seed: more than the longest
\* generate() call of this section makes
SeededCalls == 5 * MAX_ROOMS_PER_FLOOR

\* the results (new state and output word) of n successive next() calls
RECURSIVE NextCalls(_, _)
NextCalls(state, n) ==
    IF n = 0 THEN <<>>
    ELSE LET r == rngNext(state)
         IN  <<r>> \o NextCalls(r.state, n - 1)

\* per seed: the state new SeededRandom(seed) has and its first next() calls
SeededTable ==
    {[seed |-> seed, state |-> NewSeededRandom(seed),
      next |-> NextCalls(NewSeededRandom(seed), SeededCalls)] : seed \in Seeds}

SeededRun(seed) == CHOOSE run \in SeededTable : run.seed = seed

\* the state of the rng seeded with seed after it made `calls` next() calls
StateAfter(seed, calls) ==
    IF calls = 0 THEN SeededRun(seed).state
    ELSE SeededRun(seed).next[calls].state

\* what intBetween(0, n - 1) makes of the value next() returns after
\* `calls` earlier calls: the draw that value is for a range of n integers
SeededDraw(seed, calls, n) ==
    [num |-> Scaled(SeededRun(seed).next[calls + 1].out, n).floor, den |-> n]

\* the rng of a generate() call: seed, state, number of next() calls so far
Seeded(seed, calls) ==
    [op |-> "generate", args |-> <<seed>>,
     a |-> StateAfter(seed, calls), b |-> StateAfter(seed, calls),
     outA |-> <<>>, outB |-> <<>>, calls |-> calls, reseeded |-> FALSE]

\* the configurations of GenConfigs, the default one, and one whose walk
\* is long enough to pop a frontier cell that was filled in the meantime
SeededConfigs ==
    GenConfigs \cup
        {[minRooms |-> MIN_ROOMS_PER_FLOOR, maxRooms |-> MAX_ROOMS_PER_FLOOR,
          floorNumber |-> 1],
         [minRooms |-> MAX_ROOMS_PER_FLOOR, maxRooms |-> MAX_ROOMS_PER_FLOOR,
          floorNumber |-> 1]}

\* generate(config) with config.seed = seed, up to the loop: the target
\* draw and the two intBetween calls of createRoom
SeededBegin ==
    /\ gen.pc \in {"idle", "done"}
    /\ \E seed \in Seeds : \E config \in SeededConfigs :
          /\ gen' = generateBegin(gen, config,
                        SeededDraw(seed, 0, config.maxRooms - config.minRooms + 1))
          /\ rng' = Seeded(seed, 3)
    /\ UNCHANGED <<regVars, liveVars, query, gen2>>

\* one iteration of the loop of generateMainPath: the index draw, and the
\* two intBetween calls of createRoom when a room is placed
SeededWalk ==
    /\ gen.pc = "walk"
    /\ WalkContinues(gen)
    /\ \E u \in {SeededDraw(rng.args[1], rng.calls, Len(gen.frontier))} :
       \E g \in {walkIteration(gen, u)} :
          /\ gen' = g
          /\ rng' = Seeded(rng.args[1],
                           rng.calls + 1 + 2 * (Len(g.rooms) - Len(gen.rooms)))
    /\ UNCHANGED <<regVars, liveVars, query, gen2>>

\* placeBossRoom: the three draws of shuffle, from the last position down,
\* and the two intBetween calls of createRoom when a room is placed
SeededBoss ==
    /\ gen.pc = "walk"
    /\ ~ WalkContinues(gen)
    /\ \E stream \in {<<SeededDraw(rng.args[1], rng.calls, 4),
                         SeededDraw(rng.args[1], rng.calls + 1, 3),
                         SeededDraw(rng.args[1], rng.calls + 2, 2)>>} :
       \E g \in {placeBossRoom(gen, stream)} :
          /\ gen' = [g EXCEPT !.pc = "boss"]
          /\ rng' = Seeded(rng.args[1],
                           rng.calls + 3 + 2 * (Len(g.rooms) - Len(gen.rooms)))
    /\ UNCHANGED <<regVars, liveVars, query, gen2>>

\* placeSpecialRooms (which only shuffles the NORMAL rooms when there are
\* two or more: one next() call per position but the first), connectRooms
\* and the return of generate()
SeededEnd ==
    /\ gen.pc = "boss"
    /\ \E normalRooms \in {Cardinality({i \in 1 .. Len(gen.rooms) :
                                          gen.rooms[i].type = NORMAL})} :
          /\ gen' = [GenConnectRooms(placeSpecialRooms(gen)) EXCEPT
                        !.pc = "done", !.directions = <<>>]
          /\ rng' = Seeded(rng.args[1],
                           rng.calls + (IF normalRooms < 2 THEN 0
                                        ELSE normalRooms - 1))
    /\ UNCHANGED <<regVars, liveVars, query, gen2>>

NextSeeded == SeededBegin \/ SeededWalk \/ SeededBoss \/ SeededEnd

SpecSeeded == InitGen /\ [][NextSeeded]_vars

\* generate() is synchronous: once called, every step of it is taken
SpecSeededFair ==
    /\ SpecSeeded
    /\ WF_vars(SeededWalk)
    /\ WF_vars(SeededBoss)
    /\ WF_vars(SeededEnd)

-----------------------------------------------------------------------------
(* Properties of the live manager. *)

Cell(room) == gridKey(room.gridX, room.gridY)

\* the last call was an enterDoor that created the room it returned
Generated(before, c) ==
    c.op = "enterDoor" /\ c.ret # NullId /\ c.ret \notin DOMAIN before

\* C1: no two rooms of the floor have the same grid cell, and the room
\* recorded for a grid cell never changes once the cell is occupied.
C1_GridExclusive ==
    [][ /\ \A a, b \in DOMAIN rooms' :
              a # b => Cell(rooms'[a]) # Cell(rooms'[b])
        /\ \A c \in DOMAIN grid : c \in DOMAIN grid' /\ grid'[c] = grid[c]
      ]_vars

\* room a's door in direction d targets room b
Targets(a, d, b) == hasDoor(rooms[a], d) /\ rooms[a].doors[d].targetRoomId = b

\* C2: for all rooms A, B and every direction d, A's door in direction d
\* targets B iff B's door in the opposite direction targets A.
C2_Reciprocal ==
    \A a, b \in DOMAIN rooms : \A d \in DoorDirection :
        Targets(a, d, b) <=> Targets(b, getOppositeDirection(d), a)

BossRooms == {id \in DOMAIN rooms : rooms[id].type = BOSS}

\* C3: the floor never contains more than one room of type BOSS.
C3_OneBoss == Cardinality(BossRooms) <= 1

\* C4: the room generated by the enterDoor call made when the boss is not
\* yet placed and the room count has reached maxRooms - 1 is of type BOSS,
\* and no other generated room is of type BOSS.
C4_BossTiming ==
    [][ Generated(rooms, call') =>
            (rooms'[call'.ret].type = BOSS
                <=> (~ bossPlaced /\ roomCount >= maxRooms - 1)) ]_vars

\* C5: every pending record belongs to a door of an existing room whose
\* target is still null and whose adjacent cell in that direction is
\* unoccupied.
C5_PendingUnresolved ==
    \A p \in pendingDoors :
        /\ p.roomId \in DOMAIN rooms
        /\ hasDoor(rooms[p.roomId], p.direction)
        /\ rooms[p.roomId].doors[p.direction].targetRoomId = NullId
        /\ AdjacentKey(rooms[p.roomId], p.direction) \notin DOMAIN grid

\* C6: isFullyExplored() iff no pending record remains, and every door of
\* every room has a pending record or a non-null target.
C6_PendingOrConnected ==
    /\ isFullyExplored <=> Cardinality(pendingDoors) = 0
    /\ \A id \in DOMAIN rooms : \A d \in DOMAIN rooms[id].doors :
          \/ PendingKey(id, d) \in pendingDoors
          \/ rooms[id].doors[d].targetRoomId # NullId

\* a room with doors has been entered and every door is pending or connected
C6_Witness ==
    /\ Cardinality(DOMAIN rooms) >= 3
    /\ \E id \in DOMAIN rooms : \E d \in DOMAIN rooms[id].doors :
          /\ PendingKey(id, d) \notin pendingDoors
          /\ rooms[id].doors[d].targetRoomId # NullId
    /\ ~ isFullyExplored

\* the call c is enterDoor(f, d) with no pending record for (f, d) and the
\* cell next to f in direction d unoccupied, in the state before the call
InvalidTraversal(c) ==
    /\ c.op = "enterDoor"
    /\ c.fromRoom \in DOMAIN rooms
    /\ PendingKey(c.fromRoom, c.direction) \notin pendingDoors
    /\ AdjacentKey(rooms[c.fromRoom], c.direction) \notin DOMAIN grid

\* C7: an invalid traversal returns null and mutates nothing; the rng is
\* not advanced and no notification is emitted.
C7_InvalidTraversal ==
    [][ InvalidTraversal(call') =>
            /\ call'.ret = NullId
            /\ call'.used = 0
            /\ emitted' = <<>>
            /\ UNCHANGED <<rooms, grid, pendingDoors, usedComponentIds,
                           startRoom, currentRoom, roomCount, bossPlaced>>
      ]_vars

\* an invalid traversal was made from a room that has been generated
C7_Witness ==
    /\ InvalidTraversal(call)
    /\ call.ret = NullId
    /\ call.fromRoom # startRoom

\* the call c is enterDoor(f, d) for a pending door for which the registry
\* has no template, with or without the type constraint
GenerationFailure(c) ==
    /\ c.op = "enterDoor"
    /\ PendingKey(c.fromRoom, c.direction) \in pendingDoors
    /\ Len(FindAllMatching([BuildConstraints(Manager, c.direction, NORMAL)
                               EXCEPT !.requiredType = None])) = 0

\* C8: on generation failure enterDoor returns null, creates no room and
\* keeps the pending record of the door.
C8_GenerationFailure ==
    [][ GenerationFailure(call') =>
            /\ call'.ret = NullId
            /\ PendingKey(call'.fromRoom, call'.direction) \in pendingDoors'
            /\ UNCHANGED <<rooms, grid, roomCount, currentRoom>>
      ]_vars

\* a generation failure happened and its door is still pending
C8_Witness ==
    /\ GenerationFailure(call)
    /\ call.ret = NullId
    /\ PendingKey(call.fromRoom, call.direction) \in pendingDoors

-----------------------------------------------------------------------------
(* Properties of the generated floor. *)

Returned == gen.pc = "done"

\* the ids of the rooms reached from the rooms in `seen` through one door
DoorTargets(seen) ==
    {GenRoom(gen, id).doors[d].targetRoomId :
        <<id, d>> \in {p \in seen \X DoorDirection :
                          hasDoor(GenRoom(gen, p[1]), p[2])}}

RECURSIVE ReachableFrom(_)
ReachableFrom(seen) ==
    LET more == seen \cup DoorTargets(seen)
    IN  IF more = seen THEN seen ELSE ReachableFrom(more)

GenRoomIds == {gen.rooms[i].id : i \in 1 .. Len(gen.rooms)}

\* C9: in every floor returned by generate(), every room is reachable from
\* the start room by following doors.
C9_Connected == Returned => ReachableFrom({gen.startRoom}) = GenRoomIds

\* a returned floor with at least four rooms whose boss room is not next
\* to the start room
C9_Witness ==
    /\ Returned
    /\ Len(gen.rooms) >= 4
    /\ GenRoom(gen, gen.bossRoom).type = BOSS
    /\ Distance(GenRoom(gen, gen.bossRoom), GenRoom(gen, gen.startRoom)) >= 2

\* C10: in every floor returned by generate(), a room has a door in
\* direction d iff the cell next to it in direction d holds a room, that
\* door targets that room, and the door back exists and targets the room.
C10_DoorTopology ==
    Returned =>
        \A i \in 1 .. Len(gen.rooms) : \A d \in DoorDirection :
            LET a == gen.rooms[i]
                key == AdjacentKey(a, d)
                back == getOppositeDirection(d)
            IN  /\ hasDoor(a, d) <=> key \in DOMAIN gen.grid
                /\ hasDoor(a, d) =>
                      /\ a.doors[d].targetRoomId = gen.grid[key]
                      /\ hasDoor(GenRoom(gen, gen.grid[key]), back)
                      /\ GenRoom(gen, gen.grid[key]).doors[back].targetRoomId = a.id

\* a returned floor in which four rooms fill a square, so that some door
\* joins two rooms neither of which was placed from the other
C10_Witness ==
    /\ Returned
    /\ \E c \in DOMAIN gen.grid :
          /\ {<<c[1] + 1, c[2]>>, <<c[1], c[2] + 1>>, <<c[1] + 1, c[2] + 1>>}
                \subseteq DOMAIN gen.grid
          /\ Cardinality(DOMAIN GenRoom(gen, gen.grid[c]).doors) >= 2

\* the rooms created before gen.rooms[i] that lie next to it
AdjacentEarlier(i) ==
    {j \in 1 .. (i - 1) : Distance(gen.rooms[i], gen.rooms[j]) = 1}

RECURSIVE PushedUpTo(_)
\* the frontier entries pushed for the start room and the NORMAL rooms
\* gen.rooms[2 .. i]: one per neighbour cell that was unoccupied
PushedUpTo(i) ==
    IF i = 0 THEN 0
    ELSE (IF gen.rooms[i].type = BOSS THEN 0
          ELSE 4 - Cardinality(AdjacentEarlier(i))) + PushedUpTo(i - 1)

\* the stale frontier entries popped and skipped by this generate() call:
\* entries pushed, less those still in the frontier and those that became
\* a NORMAL room
StaleSkipped ==
    PushedUpTo(Len(gen.rooms)) - Len(gen.frontier)
        - Cardinality({i \in 1 .. Len(gen.rooms) : gen.rooms[i].type = NORMAL})

\* C11: in every floor returned by generate(), no two rooms have the same
\* grid cell and all room ids are distinct.
C11_EagerExclusive ==
    Returned =>
        \A i, j \in 1 .. Len(gen.rooms) :
            i # j => /\ Cell(gen.rooms[i]) # Cell(gen.rooms[j])
                     /\ gen.rooms[i].id # gen.rooms[j].id

\* a returned floor for which a stale frontier entry was skipped and whose
\* boss room has an occupied cell on two sides
C11_Witness ==
    /\ Returned
    /\ StaleSkipped >= 1
    /\ GenRoom(gen, gen.bossRoom).type = BOSS
    /\ Cardinality(DOMAIN GenRoom(gen, gen.bossRoom).doors) >= 2

\* (gridX, gridY, type) of the rooms of a floor, in iteration order
RoomLayout(g) ==
    [i \in 1 .. Len(g.rooms) |->
        <<g.rooms[i].gridX, g.rooms[i].gridY, g.rooms[i].type>>]

\* the (room, direction, target) triples of the doors of a floor
DoorTriples(g) ==
    {<<g.rooms[i].id, d, g.rooms[i].doors[d].targetRoomId>> :
        <<i, d>> \in {p \in (1 .. Len(g.rooms)) \X DoorDirection :
                          hasDoor(g.rooms[p[1]], p[2])}}

\* C12: two generate() calls with the same seed, floorNumber, minRooms and
\* maxRooms, one of them on a generator that was used before, return the
\* same number of rooms, the same (gridX, gridY, type) per room in iteration
\* order and the same set of door triples.
C12_Deterministic ==
    (gen.pc = "done" /\ gen2.pc = "done") =>
        /\ Len(gen.rooms) = Len(gen2.rooms)
        /\ RoomLayout(gen) = RoomLayout(gen2)
        /\ DoorTriples(gen) = DoorTriples(gen2)
        /\ FloorOf(gen).floorNumber = FloorOf(gen2).floorNumber

\* both calls returned a floor of at least four rooms with a room that
\* has two doors
C12_Witness ==
    /\ gen.pc = "done" /\ gen2.pc = "done"
    /\ Len(gen2.rooms) >= 4
    /\ \E i \in 1 .. Len(gen2.rooms) :
          Cardinality(DOMAIN gen2.rooms[i].doors) >= 2
    /\ Cardinality(DoorTriples(gen)) >= 6

\* the rooms of the returned floor that have the given type
RoomsOfType(type) == {i \in 1 .. Len(gen.rooms) : gen.rooms[i].type = type}

\* C13: for 1 <= minRooms <= maxRooms, generate() returns T + 1 rooms for
\* some T in minRooms .. maxRooms: one START room at grid (0, 0), T - 1
\* NORMAL rooms and one BOSS room.
C13_RoomCount ==
    (Returned /\ 1 <= gen.minRooms /\ gen.minRooms <= gen.maxRooms) =>
        LET T == Len(gen.rooms) - 1
        IN  /\ T \in gen.minRooms .. gen.maxRooms
            /\ RoomsOfType(START) = {1}
            /\ gen.rooms[1].gridX = 0 /\ gen.rooms[1].gridY = 0
            /\ gen.startRoom = gen.rooms[1].id
            /\ Cardinality(RoomsOfType(NORMAL)) = T - 1
            /\ Cardinality(RoomsOfType(BOSS)) = 1

\* a floor of at least five rooms returned for minRooms < maxRooms
C13_Witness ==
    /\ Returned
    /\ gen.minRooms < gen.maxRooms
    /\ Len(gen.rooms) = gen.minRooms + 1
    /\ gen.minRooms >= 4

-----------------------------------------------------------------------------
(* Properties of the registry. *)

Range(seq) == {seq[i] : i \in 1 .. Len(seq)}

\* C14: findAllMatching(constraints) returns exactly the templates of
\* getAll() that satisfy the matching predicate, each at most once:
\* filtering the door index gives what filtering the full list gives.
C14_QueryCorrect ==
    query.op = "findAllMatching" =>
        /\ Range(query.ret) =
               {c \in Range(getAll) : roomMatchesConstraints(c, query.constraints)}
        /\ \A i, j \in 1 .. Len(query.ret) :
               i # j => query.ret[i].id # query.ret[j].id

\* the query without its floorNumber
WithoutFloor(constraints) == [constraints EXCEPT !.floorNumber = None]

\* the templates indexed under the required door of the last query
Candidates == Range(getByDoor(query.constraints.requiredDoor))

\* C15 as stated: a template that declares only one of minFloor and
\* maxFloor is never rejected because of the floorNumber of the query.
C15_BothBoundsOnly ==
    (query.op = "findAllMatching" /\ Has(query.constraints.floorNumber)) =>
        \A c \in Candidates :
            (Has(c.minFloor) # Has(c.maxFloor)) =>
                (InSeq(c, query.ret)
                    <=> roomMatchesConstraints(c, WithoutFloor(query.constraints)))

\* C15, amended: each bound a template declares is applied on its own: a
\* template is rejected because of floorNumber iff it declares a minFloor
\* above floorNumber or a maxFloor below floorNumber.
C15_FloorRange ==
    (query.op = "findAllMatching" /\ Has(query.constraints.floorNumber)) =>
        \A c \in Candidates :
            InSeq(c, query.ret) <=>
                /\ roomMatchesConstraints(c, WithoutFloor(query.constraints))
                /\ Has(c.minFloor) =>
                      Val(query.constraints.floorNumber) >= Val(c.minFloor)
                /\ Has(c.maxFloor) =>
                      Val(query.constraints.floorNumber) <= Val(c.maxFloor)

\* a query for floor 1 that rejected a template declaring only minFloor 2
\* and returned a template declaring only maxFloor 1
C15_Witness ==
    /\ query.op = "findAllMatching"
    /\ query.constraints = [Constraints(NORTH) EXCEPT !.floorNumber = Some(1)]
    /\ TemplateDeep \in Candidates
    /\ ~ InSeq(TemplateDeep, query.ret)
    /\ InSeq(TemplateShallow, query.ret)

\* C16: findMatching returns null iff findAllMatching is empty, and
\* otherwise an element of findAllMatching, which satisfies the constraints.
C16_FindMatching ==
    query.op = "findMatching" =>
        LET matching == FindAllMatching(query.constraints)
        IN  /\ ~ Has(query.ret) <=> Len(matching) = 0
            /\ Has(query.ret) =>
                  /\ InSeq(Val(query.ret), matching)
                  /\ roomMatchesConstraints(Val(query.ret), query.constraints)

\* the registry holds one START template with only a NORTH slot, and
\* findMatching returned it for requiredDoor NORTH and requiredType START
C16_Witness ==
    /\ getAll = <<TemplateEntry>>
    /\ query.op = "findMatching"
    /\ query.constraints = [Constraints(NORTH) EXCEPT !.requiredType = Some(START)]
    /\ query.ret = Some(TemplateEntry)

\* C17: findForDoor queries with requiredDoor = opposite(fromDirection),
\* whatever requiredDoor the passed constraints hold, so a template it
\* returns has a slot in the opposite direction.
C17_FindForDoor ==
    query.op = "findForDoor" =>
        LET back == getOppositeDirection(query.fromDirection)
        IN  /\ query.ret =
                  FindMatching([query.constraints EXCEPT !.requiredDoor = back],
                               query.u)
            /\ Has(query.ret) => InSeq(back, SlotDirections(Val(query.ret)))

\* findForDoor returned a template for constraints that hold another
\* requiredDoor than the opposite of fromDirection
C17_Witness ==
    /\ query.op = "findForDoor"
    /\ Has(query.constraints.requiredDoor)
    /\ Val(query.constraints.requiredDoor)
           # getOppositeDirection(query.fromDirection)
    /\ Has(query.ret)

\* C18: on the four directions getOppositeDirection maps NORTH and SOUTH to
\* each other and EAST and WEST to each other; it is an involution without
\* a fixed point.
C18_Opposite ==
    query.op = "getOppositeDirection" =>
        /\ query.ret \in DoorDirection
        /\ query.ret # query.dir
        /\ getOppositeDirection(query.ret) = query.dir
        /\ query.ret = (CASE query.dir = NORTH -> SOUTH
                          [] query.dir = SOUTH -> NORTH
                          [] query.dir = EAST -> WEST
                          [] query.dir = WEST -> EAST)

\* getOppositeDirection(EAST) returned WEST
C18_Witness ==
    /\ query.op = "getOppositeDirection"
    /\ query.dir = EAST
    /\ query.ret = WEST

\* the template has an id, tiles and door slots
ValidTemplate(c) == c.id # "" /\ Has(c.tiles) /\ Has(c.doorSlots)

ValidOf(data) == {c \in Range(data) : ValidTemplate(c)}

-----------------------------------------------------------------------------
(* Properties of SeededRandom. *)

\* C20: two instances built from the same seed and given the same calls
\* return the same output at every call and hold the same state after it;
\* after a.setSeed(s), a is in the state of a fresh SeededRandom(s), and
\* goes on as that fresh instance does.
C20_Reproducible ==
    rng.op # "none" => rng.a = rng.b /\ rng.outA = rng.outB

\* a was used, reseeded against a fresh b, and both then shuffled an array
\* into the same new order
C20_Witness ==
    /\ rng.op = "shuffle"
    /\ rng.reseeded
    /\ rng.calls >= 2
    /\ rng.a = rng.b
    /\ rng.outA = rng.outB
    /\ rng.outA # rng.args[1]

\* an unsigned 32-bit value
IsWord(w) == Len(w) = 32 /\ \A i \in 1 .. 32 : w[i] \in {0, 1}

\* C21: the four state words of an instance are unsigned 32-bit values in
\* every reachable state, the numerator next() divides by 2^32 is below
\* 2^32 (so 0 <= next() < 1), and intBetween(min, max) with min <= max
\* returns r with min <= r <= max.
C21_Range ==
    rng.op # "none" =>
        /\ \A i \in 1 .. 4 : IsWord(rng.a[i]) /\ IsWord(rng.b[i])
        /\ rng.op = "next" => IsWord(rng.outA)
        /\ rng.op = "intBetween" =>
               rng.args[1] <= rng.outA /\ rng.outA <= rng.args[2]

\* intBetween(1, 6) was called on a used instance and answered within 1..6
C21_Witness ==
    /\ rng.op = "intBetween"
    /\ rng.args = <<1, 6>>
    /\ rng.calls >= 2
    /\ rng.outA \in 1 .. 6
    /\ \A i \in 1 .. 4 : IsWord(rng.a[i])

-----------------------------------------------------------------------------
(* Properties of the live manager's public methods. *)

\* C22: after initialize() returns, the floor is exactly one room; it has
\* type START, sits at (0,0), is the start room and the current room, is
\* visited, and the pending records are exactly one per door of it.
C22_InitializePost ==
    (call.op = "initialize" /\ ~ call.threw) =>
        /\ DOMAIN rooms = {call.ret}
        /\ rooms[call.ret].type = START
        /\ Cell(rooms[call.ret]) = gridKey(0, 0)
        /\ startRoom = call.ret
        /\ currentRoom = call.ret
        /\ rooms[call.ret].visited
        /\ pendingDoors =
              {PendingKey(call.ret, d) : d \in DOMAIN rooms[call.ret].doors}

\* the registry holds a START template with at least one door slot
HasStartTemplate ==
    \E i \in 1 .. Len(components) :
        /\ components[i].type = START
        /\ Has(components[i].doorSlots)
        /\ Len(Val(components[i].doorSlots)) >= 1

\* C23: initialize() returns a start room whenever the registry holds a
\* START template with at least one door slot, in whatever direction.
C23_InitializeSucceeds ==
    (call.op = "initialize" /\ HasStartTemplate) =>
        ~ call.threw /\ call.ret \in DOMAIN rooms

\* C24: neither initialize() nor enterDoor() raises an exception when no
\* template matches its query.
C24_NeverThrows ==
    call.op \in {"initialize", "enterDoor"} => ~ call.threw

\* every door of the room is locked and closed
AllLocked(room) ==
    \A d \in DOMAIN room.doors : room.doors[d].isLocked /\ ~ room.doors[d].isOpen

AllUnlocked(room) == \A d \in DOMAIN room.doors : ~ room.doors[d].isLocked

\* C25: after enterDoor returns room R, R is visited and is the current
\* room; if R is NORMAL and not cleared each of its doors is locked and not
\* open, otherwise each of its doors is unlocked.
C25_EnterRoom ==
    (call.op = "enterDoor" /\ call.ret # NullId) =>
        LET R == rooms[call.ret]
        IN  /\ R.visited
            /\ currentRoom = call.ret
            /\ IF R.type = NORMAL /\ ~ R.cleared
               THEN AllLocked(R) ELSE AllUnlocked(R)

\* a cleared NORMAL room was entered again and is unlocked, while another
\* NORMAL room of the floor, entered and not cleared, is locked
C25_Witness ==
    /\ call.op = "enterDoor"
    /\ call.ret # NullId
    /\ rooms[call.ret].type = NORMAL
    /\ rooms[call.ret].cleared
    /\ rooms[call.ret].doors # <<>>
    /\ AllUnlocked(rooms[call.ret])
    /\ \E id \in DOMAIN rooms :
          /\ rooms[id].type = NORMAL
          /\ rooms[id].visited
          /\ ~ rooms[id].cleared
          /\ rooms[id].doors # <<>>
          /\ AllLocked(rooms[id])

\* every door of the room is unlocked and open
AllOpen(room) ==
    \A d \in DOMAIN room.doors : ~ room.doors[d].isLocked /\ room.doors[d].isOpen

\* C26: clearCurrentRoom() with a current room makes it cleared, makes each
\* of its doors unlocked and open, emits exactly one room-cleared event that
\* carries the room, and changes no other room, pending door or counter;
\* without a current room it changes nothing and emits nothing.
C26_ClearCurrentRoom ==
    [][call'.op = "clearCurrentRoom" =>
          /\ UNCHANGED <<grid, pendingDoors, usedComponentIds, startRoom,
                         currentRoom, roomCount, bossPlaced>>
          /\ IF currentRoom # NullId
             THEN /\ DOMAIN rooms' = DOMAIN rooms
                  /\ rooms'[currentRoom].cleared
                  /\ AllOpen(rooms'[currentRoom])
                  /\ \A id \in DOMAIN rooms \ {currentRoom} :
                        rooms'[id] = rooms[id]
                  /\ emitted' = <<RoomCleared(currentRoom)>>
             ELSE /\ rooms' = rooms
                  /\ emitted' = <<>>]_vars

\* a locked NORMAL room was cleared: its doors are open again and the event
\* names it, while another NORMAL room stays locked and uncleared
C26_Witness ==
    /\ call.op = "clearCurrentRoom"
    /\ currentRoom # NullId
    /\ rooms[currentRoom].type = NORMAL
    /\ rooms[currentRoom].cleared
    /\ rooms[currentRoom].doors # <<>>
    /\ AllOpen(rooms[currentRoom])
    /\ emitted = <<RoomCleared(currentRoom)>>
    /\ \E id \in DOMAIN rooms \ {currentRoom} :
          rooms[id].type = NORMAL /\ ~ rooms[id].cleared /\ AllLocked(rooms[id])

\* the room-entered events among the events of the last call
EnteredEvents ==
    {i \in DOMAIN emitted : emitted[i].event = "room:entered"}

\* C27: an enterDoor call that returns a room, newly generated or already
\* existing, emits exactly one room-entered event for that room; an enterDoor
\* call that returns null emits none.
C27_OneEnteredEvent ==
    call.op = "enterDoor" =>
        IF call.ret # NullId
        THEN /\ Cardinality(EnteredEvents) = 1
             /\ \A i \in EnteredEvents : emitted[i].room = call.ret
        ELSE EnteredEvents = {}

-----------------------------------------------------------------------------
(* Properties of the rooms' doors. *)

\* C28: addDoor stores the door unlocked and open; lockDoors() makes every
\* door of the room locked and closed; unlockDoors() and clear() make every
\* door of the room unlocked and open; every door of every room satisfies
\* isLocked = ~ isOpen.
C28_DoorState ==
    \A id \in DOMAIN rooms :
        LET room == rooms[id]
        IN  /\ \A d \in DOMAIN room.doors :
                  room.doors[d].isLocked = ~ room.doors[d].isOpen
            /\ \A d \in DoorDirection, target \in {NullId} \cup DOMAIN rooms :
                  LET door == addDoor(room, d, target).doors[d]
                  IN  ~ door.isLocked /\ door.isOpen
            /\ AllLocked(lockDoors(room))
            /\ AllOpen(unlockDoors(room))
            /\ AllOpen(clear(room))

\* one room of the floor has its doors locked and closed while another,
\* cleared, room has them unlocked and open
C28_Witness ==
    \E a, b \in DOMAIN rooms :
        /\ a # b
        /\ rooms[a].doors # <<>>
        /\ rooms[b].doors # <<>>
        /\ AllLocked(rooms[a])
        /\ rooms[b].cleared
        /\ AllOpen(rooms[b])

-----------------------------------------------------------------------------
(* Properties of the choice of templates. *)

\* the ids of the templates instantiated on the floor
UsedTemplates == {rooms[id].templateId : id \in DOMAIN rooms}

\* C29: enterDoor instantiates a template whose id was already used on the
\* floor only if more than 10 distinct templates had been used before the
\* call, also when the template is found with requiredType relaxed.
C29_NoEarlyRepeat ==
    [][\A id \in DOMAIN rooms' \ DOMAIN rooms :
          rooms'[id].templateId \in UsedTemplates =>
              Cardinality(UsedTemplates) > 10]_vars

\* the twelfth room repeats the template of the second, after the start
\* room and ten halls of eleven distinct templates
C29_Witness ==
    /\ call.op = "enterDoor"
    /\ call.ret # NullId
    /\ Cardinality(DOMAIN rooms) = 12
    /\ Cardinality(UsedTemplates) = 11
    /\ \E id \in DOMAIN rooms \ {call.ret} :
          rooms[id].templateId = rooms[call.ret].templateId

-----------------------------------------------------------------------------
(* Properties of a traversal that generates a room. *)

\* C30: after enterDoor(fromRoom, d) generates room N, N is at the cell next
\* to fromRoom in direction d, fromRoom's d door targets N and N's opposite
\* door targets fromRoom, the pending record (fromRoom, d) is gone, roomCount
\* grew by one, and each other door of N is registered pending when the cell
\* next to it is empty and targets the room of that cell otherwise.
C30_Generated ==
    [][(/\ call'.op = "enterDoor"
        /\ call'.ret # NullId
        /\ PendingKey(call'.fromRoom, call'.direction) \in pendingDoors) =>
          LET f == call'.fromRoom
              d == call'.direction
              back == getOppositeDirection(d)
              N == rooms'[call'.ret]
          IN  /\ call'.ret \notin DOMAIN rooms
              /\ gridKey(N.gridX, N.gridY) = AdjacentKey(rooms[f], d)
              /\ hasDoor(rooms'[f], d)
              /\ rooms'[f].doors[d].targetRoomId = call'.ret
              /\ hasDoor(N, back)
              /\ N.doors[back].targetRoomId = f
              /\ PendingKey(f, d) \notin pendingDoors'
              /\ roomCount' = roomCount + 1
              /\ \A dir \in DOMAIN N.doors \ {back} :
                    IF AdjacentKey(N, dir) \in DOMAIN grid'
                    THEN N.doors[dir].targetRoomId = grid'[AdjacentKey(N, dir)]
                    ELSE PendingKey(call'.ret, dir) \in pendingDoors']_vars

\* a room was generated next to two rooms: its door back targets the room
\* the player came from and another of its doors targets the other neighbour
C30_Witness ==
    /\ call.op = "enterDoor"
    /\ call.ret # NullId
    /\ emitted = <<RoomEntered(call.ret, call.fromRoom, Manager)>>
    /\ roomCount = Cardinality(DOMAIN rooms)
    /\ PendingKey(call.fromRoom, call.direction) \notin pendingDoors
    /\ rooms[call.fromRoom].doors[call.direction].targetRoomId = call.ret
    /\ LET N == rooms[call.ret]
           back == getOppositeDirection(call.direction)
       IN  /\ N.doors[back].targetRoomId = call.fromRoom
           /\ \E dir \in DOMAIN N.doors \ {back} :
                 /\ AdjacentKey(N, dir) \in DOMAIN grid
                 /\ N.doors[dir].targetRoomId = grid[AdjacentKey(N, dir)]
                 /\ N.doors[dir].targetRoomId # call.fromRoom

-----------------------------------------------------------------------------
(* Properties of the eager generator's boss room. *)

\* the Manhattan distance of the i-th room of g from the start room
FromStart(g, i) == Distance(g.rooms[i], GenRoom(g, g.startRoom))

\* the first room, in placement order, that no room exceeds in distance
FirstFurthest(g) ==
    CHOOSE i \in 1 .. Len(g.rooms) :
        /\ \A j \in 1 .. Len(g.rooms) : FromStart(g, j) <= FromStart(g, i)
        /\ \A j \in 1 .. (i - 1) : FromStart(g, j) < FromStart(g, i)

\* the cell next to room in the k-th direction of the shuffled array
TriedCell(room, directions, k) ==
    gridKey(room.gridX + directions[k].dx, room.gridY + directions[k].dy)

\* a room placed before the last one is in the given cell
PlacedEarlier(g, cell) ==
    \E i \in 1 .. (Len(g.rooms) - 1) :
        gridKey(g.rooms[i].gridX, g.rooms[i].gridY) = cell

\* the generator as it was when placeBossRoom was called
BeforeBoss(g) == [g EXCEPT !.rooms = SubSeq(@, 1, Len(@) - 1)]

\* C31: placeBossRoom creates the boss room in a cell that was unoccupied
\* and is next to the first room, in placement order, at maximum Manhattan
\* distance from the start room; the cells are tried in the order of the
\* shuffled directions and the first unoccupied one is taken (every cell
\* the loop tried before it was occupied).
C31_BossPlacement ==
    gen.pc = "boss" =>
        LET furthest == gen.rooms[FirstFurthest(BeforeBoss(gen))]
            boss == gen.rooms[Len(gen.rooms)]
            cell == gridKey(boss.gridX, boss.gridY)
            order == gen.directions
        IN  /\ Len(gen.rooms) = gen.targetRooms + 1
            /\ gen.bossRoom = boss.id
            /\ boss.type = BOSS
            /\ ~ PlacedEarlier(gen, cell)
            /\ gen.grid[cell] = boss.id
            /\ Distance(boss, furthest) = 1
            /\ Len(order) \in 1 .. 4
            /\ \A k \in 1 .. Len(order) :
                  /\ \E n \in 1 .. 4 : order[k] = BossDirections[n]
                  /\ \A j \in 1 .. (k - 1) : order[j] # order[k]
            /\ cell = TriedCell(furthest, order, Len(order))
            /\ \A j \in 1 .. (Len(order) - 1) :
                  PlacedEarlier(gen, TriedCell(furthest, order, j))

\* two rooms are at the maximum distance, the boss room is next to the
\* earlier one, and the first cell tried was occupied
C31_Witness ==
    /\ gen.pc = "boss"
    /\ gen.bossRoom = gen.rooms[Len(gen.rooms)].id
    /\ LET before == BeforeBoss(gen)
           furthest == gen.rooms[FirstFurthest(before)]
       IN  /\ \E j \in 1 .. Len(before.rooms) :
                 /\ j > FirstFurthest(before)
                 /\ FromStart(before, j) = FromStart(before, FirstFurthest(before))
           /\ Distance(gen.rooms[Len(gen.rooms)], furthest) = 1
           /\ Len(gen.directions) > 1
           /\ PlacedEarlier(gen, TriedCell(furthest, gen.directions, 1))

\* a cell next to the room is not in the grid
HasFreeNeighbour(g, id) ==
    \E k \in 1 .. Len(BossDirections) :
        TriedCell(GenRoom(g, id), BossDirections, k) \notin DOMAIN g.grid

\* C32: in every returned floor bossRoom has type BOSS, is not startRoom
\* and is the only BOSS room; when the walk has ended, the room that
\* placeBossRoom finds furthest from the start has an unoccupied neighbour
\* cell, so the fallback that returns the furthest room is never reached.
C32_BossRoom ==
    /\ Returned =>
          /\ gen.bossRoom # NullId
          /\ gen.bossRoom # gen.startRoom
          /\ GenRoom(gen, gen.bossRoom).type = BOSS
          /\ \A i \in RoomsOfType(BOSS) : gen.rooms[i].id = gen.bossRoom
    /\ (gen.pc = "walk" /\ ~ WalkContinues(gen)) =>
          HasFreeNeighbour(gen, FurthestRoom(gen))

\* a floor is returned whose start room has a room on all four sides
C32_Witness ==
    /\ Returned
    /\ GenRoom(gen, gen.bossRoom).type = BOSS
    /\ ~ HasFreeNeighbour(gen, gen.startRoom)

\* C33: in every floor generate() returns with the draws of its
\* SeededRandom, no room is further from startRoom, in Manhattan distance,
\* than bossRoom.
C33_BossFurthest ==
    Returned =>
        \A i \in 1 .. Len(gen.rooms) :
            FromStart(gen, i) <=
                Distance(GenRoom(gen, gen.bossRoom), GenRoom(gen, gen.startRoom))

\* a returned floor of six rooms whose boss room is two cells from the
\* start room, next to a room that has other rooms at its own distance
C33_Witness ==
    /\ Returned
    /\ rng.op = "generate"
    /\ Len(gen.rooms) = 6
    /\ Distance(GenRoom(gen, gen.bossRoom), GenRoom(gen, gen.startRoom)) = 2
    /\ Cardinality({i \in 1 .. Len(gen.rooms) : FromStart(gen, i) = 1}) = 4

\* the frontier holds a cell that is not in the grid
HasFreeFrontier(g) ==
    \E i \in 1 .. Len(g.frontier) : g.frontier[i] \notin DOMAIN g.grid

\* C34: generate() terminates for every seed.  Every iteration of the
\* walk removes one frontier entry and adds entries (at most four) only
\* when it places a room, rooms are placed only below the target count,
\* and while the target count is not reached the frontier is not exhausted
\* (it still holds an unoccupied cell); every call that has entered the
\* walk returns.
C34_Terminates ==
    /\ [][(gen.pc = "walk" /\ gen'.pc = "walk") =>
             \/ /\ Len(gen'.rooms) = Len(gen.rooms)
                /\ Len(gen'.frontier) = Len(gen.frontier) - 1
             \/ /\ Len(gen'.rooms) = Len(gen.rooms) + 1
                /\ Len(gen'.rooms) <= gen.targetRooms
                /\ Len(gen'.frontier) >= Len(gen.frontier) - 1
                /\ Len(gen'.frontier) <= Len(gen.frontier) + 3]_vars
    /\ []((gen.pc = "walk" /\ Len(gen.rooms) < gen.targetRooms) =>
             HasFreeFrontier(gen))
    /\ (gen.pc = "walk") ~> (gen.pc = "done")

\* a call has returned that made more next() calls than its rooms, its two
\* shuffles and its target draw account for: an iteration of its walk
\* popped an occupied cell and placed no room
C34_Witness ==
    /\ Returned
    /\ rng.op = "generate"
    /\ gen.targetRooms >= 3
    /\ Len(gen.rooms) = gen.targetRooms + 1
    /\ rng.calls > 1 + 2 * Len(gen.rooms) + (gen.targetRooms - 1)
                     + 3 + (gen.targetRooms - 2)

-----------------------------------------------------------------------------
(* Further properties of the live manager *)

\* C35: after initialize(), getRoomCount() is the number of rooms in the id
\* index and the number of occupied cells of the grid index, and every room
\* of the id index is the room the grid index holds at its own cell.
C35_IndexConsistent ==
    startRoom # NullId =>
        /\ roomCount = Cardinality(DOMAIN rooms)
        /\ roomCount = Cardinality(DOMAIN grid)
        /\ \A id \in DOMAIN rooms :
              /\ Cell(rooms[id]) \in DOMAIN grid
              /\ grid[Cell(rooms[id])] = id

\* C36: the number of rooms generated on a floor never exceeds maxRooms:
\* once getRoomCount() = maxRooms no enterDoor call creates a room.
C36_MaxRooms ==
    [][(startRoom # NullId /\ roomCount >= maxRooms) =>
          (roomCount' = roomCount /\ DOMAIN rooms' = DOMAIN rooms)]_vars

\* C37: whenever hasBoss() returns true, a room of type BOSS exists on the
\* floor.
C37_BossFlag ==
    hasBoss =>
        \E id \in DOMAIN rooms : rooms[id].type = BOSS

\* C38: enterDoor(fromRoom, d) on a room that has no door in direction d
\* returns null and changes nothing of the manager, the current room
\* included, also when the cell next to fromRoom in direction d is occupied.
C38_NoDoor ==
    [][(/\ call'.op = "enterDoor"
        /\ ~ hasDoor(rooms[call'.fromRoom], call'.direction)) =>
          /\ call'.ret = NullId
          /\ UNCHANGED <<rooms, grid, pendingDoors, usedComponentIds,
                         startRoom, currentRoom, roomCount, bossPlaced>>]_vars

-----------------------------------------------------------------------------
(* Tiles of the rooms of a live floor. *)

\* the tile matrices of the registry's templates, in the three indexes
TemplateTiles ==
    [all |-> [i \in 1 .. Len(components) |-> components[i].tiles],
     type |-> [t \in RoomType |->
                 [i \in 1 .. Len(byType[t]) |-> byType[t][i].tiles]],
     door |-> [d \in DoorDirection |->
                 [i \in 1 .. Len(byDoor[d]) |-> byDoor[d][i].tiles]]]

\* the tile matrix of every room of the floor
RoomTiles == [id \in DOMAIN rooms |-> getTiles(rooms[id])]

\* C40: tile isolation.  A call setTile(x, y, v) on a room of the floor
\* writes v into cell (x, y) of that room's matrix when (x, y) is in range
\* and leaves that matrix alone otherwise; the matrices of all other rooms
\* and of the registry's templates are the same before and after the call.
C40_TileIsolation ==
    [][call'.op = "setTile" =>
          LET id == call'.room
              x == call'.x
              y == call'.y
              written == IF InRange(rooms[id], x, y)
                         THEN WriteTile(RoomTiles[id], x, y, call'.value)
                         ELSE RoomTiles[id]
          IN  /\ DOMAIN RoomTiles' = DOMAIN RoomTiles
              /\ RoomTiles'[id] = written
              /\ \A other \in DOMAIN rooms \ {id} :
                     RoomTiles'[other] = RoomTiles[other]
              /\ TemplateTiles' = TemplateTiles]_vars

====
